---- MODULE Spec2Model ----
(***************************************************************************)
(* Topline news aggregator: the in-memory cache of FeedAggregator          *)
(* (backend/feed_aggregator.py), the two read handlers of the API layer    *)
(* (backend/main.py: /api/news and /api/trending), the module-level        *)
(* merge pipeline get_news with its scatter-gather fetch_rss_feeds, and    *)
(* the three keyword categorizers (backend/feed_aggregator.py,             *)
(* backend/scraper.py).                                                    *)
(*                                                                         *)
(* Time is counted in minutes (the unit of the two cache expiry tests).    *)
(* A coroutine is atomic between two awaits, so every action below is the  *)
(* code between two suspension points of one coroutine.                    *)
(***************************************************************************)
EXTENDS Integers, Sequences, FiniteSets, TLC

(***************************************************************************)
(* Bounds of the model.                                                    *)
(***************************************************************************)
\* article links are 1..MaxLink
MaxLink == 2
\* published strings are 1..MaxPub, in the order in which Python compares them
MaxPub == 1
\* a feed document carries at most MaxEntries entries
MaxEntries == 1
\* the clock stops at MaxTime minutes
MaxTime == 6
\* a title holds at most MaxTitle words, a content at most MaxContent
MaxTitle == 1
MaxContent == 3
\* with two requests in flight the clock stops at MaxOverlap minutes
MaxOverlap == 1
\* a news list handed to the /api/news handler holds at most MaxNews items
MaxNews == 2

(***************************************************************************)
(* Values and constants of the program.                                    *)
(***************************************************************************)
\* Python's None (an absent last_update, an absent published_at)
None == -1
\* the empty string '' taken as a published_at (entry.get('published', ''))
EmptyStr == 0
\* timedelta(minutes=2) of get_latest_data
NewsTTL == 2
\* timedelta(minutes=5) of get_trending_news
TrendingTTL == 5
\* feed.entries[:5] of get_trending_news
TrendingEntryCap == 5
\* self._cache.get('news', [])[:10], the last resort of the trending read
NewsFallbackCap == 10

\* most_read_feeds of get_trending_news, in dict order
most_read_feeds == <<"ynet", "mako", "walla", "n12">>

\* the keys of RSS_FEEDS, in dict order (each has a 'main' url)
RSS_FEEDS == <<"ynet", "mako", "walla", "n12", "haaretz">>
\* feed.entries[:10] of fetch_rss_feed
RssEntryCap == 10

Min(a, b) == IF a < b THEN a ELSE b

\* s[:n]
Take(s, n) == SubSeq(s, 1, Min(n, Len(s)))

(***************************************************************************)
(* The environment: what a source can answer to one request.               *)
(***************************************************************************)
\* a parsed feed entry; published = EmptyStr stands for an entry without a
\* published element
Entries == [link : 1..MaxLink, published : 0..MaxPub]

SeqsUpTo(S, n) == UNION {[1..k -> S] : k \in 0..n}

FeedDocs == SeqsUpTo(Entries, MaxEntries)

\* one GET of a most-read feed: a 200 answer with a document, another
\* status, a timeout of the request, another exception of the client, or
\* a 200 answer whose document holds, behind the entries given, an entry
\* that raises while it is read (no title, no link, an empty media list)
FetchOutcomes ==
    [kind : {"ok"}, entries : FeedDocs]
    \cup [kind : {"status", "timeout", "error"}, entries : {<<>>}]
    \cup [kind : {"broken"},
          entries : SeqsUpTo(Entries, Min(MaxEntries, TrendingEntryCap) - 1)]

(***************************************************************************)
(* State.                                                                  *)
(***************************************************************************)
VARIABLES
    cache,   \* FeedAggregator._cache
    now,     \* datetime.now(), in minutes
    req,     \* the requests being served: each one's position and locals
    gn,      \* one call of the module's get_news: its two tasks, its result
    cz,      \* one text and what each of the three categorizers makes of it
    fr,      \* one call of fetch_rss_feeds: its tasks, what it returns
    rt,      \* one feed url and the calls that fetch it, fetch_with_retry first
    ex,      \* one article page and what the two extractors make of it
    tn       \* one call of FeedAggregator.fetch_trending_news

vars == <<cache, now, req, gn, cz, fr, rt, ex, tn>>

Reqs == {1}

IdleReq ==
    [pc |-> "idle", kind |-> "none", now |-> 0, idx |-> 0, acc |-> <<>>,
     category |-> "", served |-> FALSE, refreshed |-> FALSE,
     outcome |-> "none", status |-> "none", data |-> <<>>, from_cache |-> FALSE,
     elapsed |-> 0, news_id |-> 0]

Pending == [done |-> FALSE, result |-> <<>>]

IdleCall ==
    [pc |-> "idle", category |-> "", world |-> Pending,
     feeds |-> [i \in 1..Len(RSS_FEEDS) |-> Pending],
     how |-> "none", ret |-> <<>>]

\* FeedAggregator.__init__
InitCache ==
    [news |-> <<>>, trends |-> <<>>, last_update |-> None,
     trending_news |-> <<>>, trending_last_update |-> None]

\* a task of the gather that has not ended
PendingTask ==
    [done |-> FALSE, out |-> [kind |-> "none", entries |-> <<>>],
     result |-> <<>>]

\* fetch_rss_feeds is not running
IdleFeeds ==
    [pc |-> "idle", tasks |-> [i \in 1..Len(RSS_FEEDS) |-> PendingTask],
     all_entries |-> <<>>, unique_news |-> <<>>, order |-> <<>>]

\* no url is being fetched
IdleRetry ==
    [pc |-> "idle", script |-> <<>>, attempt |-> 0, seen |-> <<>>,
     slept |-> <<>>, ret |-> "none",
     feed |-> [requests |-> 0, items |-> FALSE],
     trending |-> [requests |-> 0, items |-> FALSE]]

\* no article page is being read
NoPage ==
    [source |-> "none", out |-> [kind |-> "none"],
     full |-> [how |-> "pending"], image |-> [how |-> "pending"]]

\* fetch_trending_news is not running
IdleTrending ==
    [pc |-> "idle", source |-> 0, feeds |-> <<>>, entries |-> <<>>,
     pos |-> 0, trending_news |-> <<>>, timed_out |-> FALSE]

\* no text is being categorized
NoText ==
    [title |-> <<>>, content |-> <<>>, detect_category |-> "none",
     FeedAggregator |-> "none", NewsScraper |-> "none"]

Init ==
    /\ cache = InitCache
    /\ now = 0
    /\ req = [r \in Reqs |-> IdleReq]
    /\ gn = IdleCall
    /\ cz = NoText
    /\ fr = IdleFeeds
    /\ rt = IdleRetry
    /\ ex = NoPage
    /\ tn = IdleTrending

(***************************************************************************)
(* FeedAggregator: the expiry test shared by both views.                   *)
(***************************************************************************)
\* an expiry test that also fires when exactly ttl minutes have passed
ExpiredAtTTL(last, nw, ttl) == last = None \/ nw - last >= ttl

\* not last or now - last > timedelta(minutes=ttl)
Expired(last, nw, ttl) == last = None \/ nw - last > ttl

(***************************************************************************)
(* FeedAggregator.get_latest_data.  FeedAggregator defines no method       *)
(* fetch_rss_feeds (it is a function of the module), so evaluating         *)
(* self.fetch_rss_feeds raises AttributeError before any await; the        *)
(* except clause of the method answers with the cached lists.  The method  *)
(* therefore never suspends and never reaches its cache update.            *)
(***************************************************************************)
\* get_latest_data without its except clause: the AttributeError leaves
get_latest_data_Raising(c, nw) ==
    IF Expired(c.last_update, nw, NewsTTL)
    THEN [how |-> "raised", fetches |-> 0, cache |-> c, ret |-> c]
    ELSE [how |-> "returned", fetches |-> 0, cache |-> c, ret |-> c]

\* get_latest_data with an except clause that starts the cache afresh
get_latest_data_Resetting(c, nw) ==
    IF Expired(c.last_update, nw, NewsTTL)
    THEN [how |-> "returned", fetches |-> 0, cache |-> InitCache,
          ret |-> [news |-> c.news, trends |-> c.trends,
                   last_update |-> c.last_update]]
    ELSE [how |-> "returned", fetches |-> 0, cache |-> c, ret |-> c]

get_latest_data(c, nw) ==
    IF Expired(c.last_update, nw, NewsTTL)
    THEN [how |-> "returned", fetches |-> 0, cache |-> c,
          ret |-> [news |-> c.news, trends |-> c.trends,
                   last_update |-> c.last_update]]
    ELSE [how |-> "returned", fetches |-> 0, cache |-> c, ret |-> c]

(***************************************************************************)
(* main.get_news, the handler of /api/news, given how the awaited          *)
(* wait_for(get_latest_data(), 15) ended and the cache it then sees.       *)
(***************************************************************************)
get_news_response(call, c, category) ==
    CASE call.how = "returned" ->
           LET news_items ==
                   IF category # "" /\ category # "all"
                   THEN SelectSeq(call.ret.news,
                                  LAMBDA item : item.category = category)
                   ELSE call.ret.news
           IN [status |-> "success", data |-> news_items, from_cache |-> FALSE]
      [] call.how = "timeout" ->
           IF c.news # <<>>
           THEN [status |-> "success", data |-> c.news, from_cache |-> TRUE]
           ELSE [status |-> "504", data |-> <<>>, from_cache |-> FALSE]
      [] OTHER ->
           IF c.news # <<>>
           THEN [status |-> "success", data |-> c.news, from_cache |-> TRUE]
           ELSE [status |-> "500", data |-> <<>>, from_cache |-> FALSE]

\* the category query parameter: absent (""), "all", a category, a stranger
CategoryArgs == {"", "all", "politics", "weather"}

(***************************************************************************)
(* One /api/news request.  get_latest_data has no suspension point, so     *)
(* the task wait_for wraps ends in its first step and the 15 s timer       *)
(* never fires: the whole request is one step.  served records whether a   *)
(* main feed was serving entries while the request ran.                    *)
(***************************************************************************)
NewsRead(r) ==
    /\ req[r].pc = "idle"
    /\ \E category \in CategoryArgs, served \in BOOLEAN :
         LET call == get_latest_data(cache, now)
             resp == get_news_response(call, call.cache, category)
         IN /\ cache' = call.cache
            /\ req' = [req EXCEPT ![r] =
                 [IdleReq EXCEPT !.pc = "done", !.kind = "news", !.now = now,
                    !.category = category, !.served = served,
                    !.refreshed = Expired(cache.last_update, now, NewsTTL),
                    !.idx = call.fetches,
                    !.outcome = call.how, !.status = resp.status,
                    !.data = resp.data, !.from_cache = resp.from_cache]]
    /\ UNCHANGED <<now, gn, cz, fr, rt, ex, tn>>

(***************************************************************************)
(* FeedAggregator.get_trending_news.                                       *)
(***************************************************************************)
\* a url that is the entry's link string
StrUrl(l) == [str |-> TRUE, href |-> l, of |-> <<>>]
\* a url that is one of the link dicts (a FeedParserDict) of entry i of a
\* source: another object for every entry
DictUrl(l, source, i) == [str |-> FALSE, href |-> l, of |-> <<source, i>>]

\* the dict appended for one entry of a most-read feed
TrendingItem(entry, source) ==
    [url |-> StrUrl(entry.link), source |-> source,
     published_at |-> IF entry.published = EmptyStr THEN None
                      ELSE entry.published]

\* the items of a source without the cut of its entries
TrendingItemsOfUncut(out, source) ==
    IF out.kind \in {"ok", "broken"}
    THEN [i \in 1..Len(out.entries) |-> TrendingItem(out.entries[i], source)]
    ELSE <<>>

\* the items one source adds to trending_news for one answer
TrendingItemsOf(out, source) ==
    IF out.kind \in {"ok", "broken"}
    THEN LET es == Take(out.entries, TrendingEntryCap)
         IN [i \in 1..Len(es) |-> TrendingItem(es[i], source)]
    ELSE <<>>

\* the end of the refresh (after the session is closed): what is written
\* and what is returned
\* a cache update that stores the list and not its time
TrendingStoreListOnly(c, trending_news, nw) ==
    IF trending_news # <<>>
    THEN [c EXCEPT !.trending_news = trending_news]
    ELSE c

\* the cache update without its test "if trending_news"
TrendingStoreAlways(c, trending_news, nw) ==
    [c EXCEPT !.trending_news = trending_news, !.trending_last_update = nw]

TrendingStore(c, trending_news, nw) ==
    IF trending_news # <<>>
    THEN [c EXCEPT !.trending_news = trending_news,
                   !.trending_last_update = nw]
    ELSE c

TrendingReturn(c, trending_news) ==
    IF trending_news # <<>> THEN trending_news
    ELSE IF c.trending_news # <<>> THEN c.trending_news
    ELSE Take(c.news, NewsFallbackCap)

(***************************************************************************)
(* main.get_trending_news, the handler of /api/trending.  ret is the list  *)
(* the awaited call returned; isNone tells that it returned None.          *)
(***************************************************************************)
\* a handler whose fallback goes to the news list without looking at the
\* cached trending list
get_trending_response_NewsFirst(how, isNone, ret, c) ==
    CASE how = "returned" ->
           IF isNone \/ ret = <<>>
           THEN [status |-> "success", data |-> <<>>, from_cache |-> FALSE]
           ELSE [status |-> "success", data |-> ret, from_cache |-> FALSE]
      [] OTHER ->
           [status |-> "success", data |-> Take(c.news, NewsFallbackCap),
            from_cache |-> TRUE]

get_trending_response(how, isNone, ret, c) ==
    CASE how = "returned" ->
           IF isNone \/ ret = <<>>
           THEN [status |-> "success", data |-> <<>>, from_cache |-> FALSE]
           ELSE [status |-> "success", data |-> ret, from_cache |-> FALSE]
      [] OTHER ->
           IF c.trending_news # <<>>
           THEN [status |-> "success", data |-> c.trending_news,
                 from_cache |-> TRUE]
           ELSE [status |-> "success", data |-> Take(c.news, NewsFallbackCap),
                 from_cache |-> TRUE]

Answer(r, kind, nw, refreshed, acc, how, resp) ==
    [IdleReq EXCEPT !.pc = "done", !.kind = kind, !.now = nw,
       !.refreshed = refreshed, !.acc = acc, !.outcome = how,
       !.status = resp.status, !.data = resp.data,
       !.from_cache = resp.from_cache]

\* a trending read that finds the entry unexpired: the if of line 644 is
\* skipped and the try block ends without a return, so the call returns None
TrendingReadFresh(r) ==
    /\ req[r].pc = "idle"
    /\ ~Expired(cache.trending_last_update, now, TrendingTTL)
    /\ req' = [req EXCEPT ![r] =
         Answer(r, "trending", now, FALSE, <<>>, "returned",
                get_trending_response("returned", TRUE, <<>>, cache))]
    /\ UNCHANGED <<cache, now, gn, cz, fr, rt, ex, tn>>

\* a trending read that finds the entry expired opens a session and starts
\* on the first most-read feed
TrendingRefreshStart(r) ==
    /\ req[r].pc = "idle"
    /\ Expired(cache.trending_last_update, now, TrendingTTL)
    /\ req' = [req EXCEPT ![r] =
         [IdleReq EXCEPT !.pc = "fetch", !.kind = "trending", !.now = now,
            !.refreshed = TRUE, !.idx = 1]]
    /\ UNCHANGED <<cache, now, gn, cz, fr, rt, ex, tn>>

\* the GET of feed idx ends (session.get and response.text() are the two
\* awaits of one source; nothing is assigned between them)
\* the locals of a refresh once the GET of its current feed has ended as
\* out: the items are appended, the loop takes the next feed or is over
TrendingFetched(q, out) ==
    LET source == most_read_feeds[q.idx]
        acc == q.acc \o TrendingItemsOf(out, source)
    IN IF q.idx < Len(most_read_feeds)
       THEN [q EXCEPT !.idx = @ + 1, !.acc = acc]
       ELSE [q EXCEPT !.pc = "closing", !.acc = acc]

TrendingFetchFrom(r, outcomes) ==
    /\ req[r].pc = "fetch"
    /\ \E out \in outcomes :
         req' = [req EXCEPT ![r] = TrendingFetched(req[r], out)]
    /\ UNCHANGED <<cache, now, gn, cz, fr, rt, ex, tn>>

TrendingFetch(r) == TrendingFetchFrom(r, FetchOutcomes)

\* an end of the refresh that stores the list and leaves the time of the
\* entry as it was
TrendingFinishTorn(r) ==
    /\ req[r].pc = "closing"
    /\ LET ret == TrendingReturn(cache, req[r].acc)
       IN /\ cache' = IF req[r].acc # <<>>
                      THEN [cache EXCEPT !.trending_news = req[r].acc]
                      ELSE cache
          /\ req' = [req EXCEPT ![r] =
               Answer(r, "trending", req[r].now, TRUE, req[r].acc, "returned",
                      get_trending_response("returned", FALSE, ret, cache'))]
    /\ UNCHANGED <<now, gn, cz, fr, rt, ex, tn>>

\* the session is closed (the await of async with's exit), then the cache
\* update and the return run without another await
TrendingFinish(r) ==
    /\ req[r].pc = "closing"
    /\ LET ret == TrendingReturn(cache, req[r].acc)
       IN /\ cache' = TrendingStore(cache, req[r].acc, req[r].now)
          /\ req' = [req EXCEPT ![r] =
               Answer(r, "trending", req[r].now, TRUE, req[r].acc, "returned",
                      get_trending_response("returned", FALSE, ret, cache'))]
    /\ UNCHANGED <<now, gn, cz, fr, rt, ex, tn>>

\* closing the session raises (an exception outside the try of the loop
\* over the feeds): the except clause of get_trending_news returns the
\* cached trending list, or else the first items of the news list; what
\* the loop had collected is dropped and nothing is written
TrendingRaise(r) ==
    /\ req[r].pc = "closing"
    /\ LET ret == IF cache.trending_news # <<>> THEN cache.trending_news
                  ELSE Take(cache.news, NewsFallbackCap)
       IN req' = [req EXCEPT ![r] =
            Answer(r, "trending", req[r].now, TRUE, req[r].acc, "caught",
                   get_trending_response("returned", FALSE, ret, cache))]
    /\ UNCHANGED <<cache, now, gn, cz, fr, rt, ex, tn>>

\* a cancellation that stores what the loop has collected so far
TrendingDeadlineStoring(r) ==
    /\ req[r].pc \in {"fetch", "closing"}
    /\ cache' = TrendingStoreAlways(cache, req[r].acc, req[r].now)
    /\ req' = [req EXCEPT ![r] =
         Answer(r, "trending", req[r].now, TRUE, req[r].acc, "timeout",
                get_trending_response("timeout", FALSE, <<>>, cache'))]
    /\ UNCHANGED <<now, gn, cz, fr, rt, ex, tn>>

\* the 10 s timer of wait_for fires while the call is suspended: the task
\* is cancelled at its await (CancelledError is no Exception, so no except
\* clause of get_trending_news catches it) and the handler takes its
\* TimeoutError branch
TrendingDeadline(r) ==
    /\ req[r].pc \in {"fetch", "closing"}
    /\ req' = [req EXCEPT ![r] =
         Answer(r, "trending", req[r].now, TRUE, req[r].acc, "timeout",
                get_trending_response("timeout", FALSE, <<>>, cache))]
    /\ UNCHANGED <<cache, now, gn, cz, fr, rt, ex, tn>>

\* the response is sent; the slot serves the next request
Respond(r) ==
    /\ req[r].pc = "done"
    /\ req' = [req EXCEPT ![r] = IdleReq]
    /\ UNCHANGED <<cache, now, gn, cz, fr, rt, ex, tn>>

\* a minute passes
Tick ==
    /\ now < MaxTime
    /\ now' = now + 1
    /\ UNCHANGED <<cache, req, gn, cz, fr, rt, ex, tn>>

Next ==
    \/ Tick
    \/ \E r \in Reqs : NewsRead(r)
    \/ \E r \in Reqs : TrendingReadFresh(r)
    \/ \E r \in Reqs : TrendingRefreshStart(r)
    \/ \E r \in Reqs : TrendingFetch(r)
    \/ \E r \in Reqs : TrendingFinish(r)
    \/ \E r \in Reqs : TrendingRaise(r)
    \/ \E r \in Reqs : TrendingDeadline(r)
    \/ \E r \in Reqs : Respond(r)

Spec == Init /\ [][Next]_vars

(***************************************************************************)
(* Two requests in flight.  Nothing in FeedAggregator serializes the       *)
(* calls: a request that finds the entry expired while another one is      *)
(* fetching starts a refresh of its own.  Every most-read feed serves the  *)
(* same single entry or fails, and the clock stops at MaxOverlap.          *)
(***************************************************************************)
Slots == {1, 2}

ConcInit ==
    /\ cache = InitCache
    /\ now = 0
    /\ req = [r \in Slots |-> IdleReq]
    /\ gn = IdleCall
    /\ cz = NoText
    /\ fr = IdleFeeds
    /\ rt = IdleRetry
    /\ ex = NoPage
    /\ tn = IdleTrending

\* the GET of a feed ends, with the one entry or with a failure
ConcTrendingFetch(r) ==
    /\ TrendingFetch(r)
    /\ \A k \in 1..Len(req'[r].acc) :
           /\ req'[r].acc[k].url = StrUrl(1)
           /\ req'[r].acc[k].published_at = 1

ConcTick == now < MaxOverlap /\ Tick

ConcNext ==
    \/ ConcTick
    \/ \E r \in Slots : NewsRead(r)
    \/ \E r \in Slots : TrendingReadFresh(r)
    \/ \E r \in Slots : TrendingRefreshStart(r)
    \/ \E r \in Slots : ConcTrendingFetch(r)
    \/ \E r \in Slots : TrendingFinish(r)
    \/ \E r \in Slots : TrendingRaise(r)
    \/ \E r \in Slots : TrendingDeadline(r)
    \/ \E r \in Slots : Respond(r)

ConcSpec == ConcInit /\ [][ConcNext]_vars

(***************************************************************************)
(* The size of the two cached lists.  Every most-read feed fails, serves   *)
(* an empty document, or serves the same entry as many times as are kept   *)
(* of a document, or more, up to MaxFeedLen.                               *)
(***************************************************************************)
\* one entry more than feed.entries[:5] keeps
MaxFeedLen == 6

\* MAX_ITEMS of config.py
MAX_ITEMS == [news |-> 100, trending |-> 20]

LongDocs ==
    UNION {[1..k -> {[link |-> 1, published |-> 1]}] :
              k \in {0} \cup (TrendingEntryCap .. MaxFeedLen)}

LongOutcomes ==
    [kind : {"ok"}, entries : LongDocs]
    \cup [kind : {"status"}, entries : {<<>>}]

\* the GET of a feed ends, with a document of any length or with a failure
LongTrendingFetch(r) == TrendingFetchFrom(r, LongOutcomes)

LongNext ==
    \/ Tick
    \/ \E r \in Reqs : NewsRead(r)
    \/ \E r \in Reqs : TrendingReadFresh(r)
    \/ \E r \in Reqs : TrendingRefreshStart(r)
    \/ \E r \in Reqs : LongTrendingFetch(r)
    \/ \E r \in Reqs : TrendingFinish(r)
    \/ \E r \in Reqs : TrendingRaise(r)
    \/ \E r \in Reqs : TrendingDeadline(r)
    \/ \E r \in Reqs : Respond(r)

LongSpec == Init /\ [][LongNext]_vars

(***************************************************************************)
(* A trending refresh against the clock of its request.  elapsed counts    *)
(* the seconds since main.get_trending_news awaited the call.  Every GET   *)
(* ends within the timeout of its session.get; closing the session takes   *)
(* no time.                                                                *)
(***************************************************************************)
\* session.get(url, timeout=5)
FetchTimeout == 5
\* asyncio.wait_for(feed_aggregator.get_trending_news(), timeout=10.0)
TrendingDeadlineSeconds == 10

\* a feed serves one entry, serves none, answers another status, or does
\* not answer
TimedOutcomes ==
    [kind : {"ok"}, entries : {<<>>, <<[link |-> 1, published |-> 1]>>}]
    \cup [kind : {"status", "timeout"}, entries : {<<>>}]

\* the seconds a GET that ends as out can take: the whole timeout if it
\* times out, less if it is answered
Durations(out) ==
    IF out.kind = "timeout" THEN {FetchTimeout} ELSE 1 .. FetchTimeout - 1

\* the GET of the current feed ends before the timer of wait_for fires
TimedTrendingFetch(r) ==
    /\ req[r].pc = "fetch"
    /\ \E out \in TimedOutcomes :
         \E d \in Durations(out) :
            /\ req[r].elapsed + d < TrendingDeadlineSeconds
            /\ req' = [req EXCEPT ![r] =
                  [TrendingFetched(req[r], out) EXCEPT !.elapsed = @ + d]]
    /\ UNCHANGED <<cache, now, gn, cz, fr, rt, ex, tn>>

\* the timer of wait_for fires while the GET of the current feed is awaited
TimedTrendingDeadline(r) ==
    /\ req[r].pc = "fetch"
    /\ \E out \in TimedOutcomes :
         \E d \in Durations(out) :
            req[r].elapsed + d >= TrendingDeadlineSeconds
    /\ TrendingDeadline(r)

TimedNext ==
    \/ Tick
    \/ \E r \in Reqs : TrendingReadFresh(r)
    \/ \E r \in Reqs : TrendingRefreshStart(r)
    \/ \E r \in Reqs : TimedTrendingFetch(r)
    \/ \E r \in Reqs : TrendingFinish(r)
    \/ \E r \in Reqs : TimedTrendingDeadline(r)
    \/ \E r \in Reqs : Respond(r)

TimedSpec == Init /\ [][TimedNext]_vars

(***************************************************************************)
(* The three categorizers: detect_category of feed_aggregator.py (the one  *)
(* fetch_rss_feed calls), FeedAggregator._detect_category and              *)
(* NewsScraper.detect_category.  Each has a table of its own.              *)
(*                                                                         *)
(* A text is a sequence of words; title + ' ' + content is the             *)
(* concatenation of two such sequences.                                    *)
(***************************************************************************)
\* the words the texts are made of
Words ==
    {"Election", "ממשלה", "פוליטיקה", "שחקן", "כדורגל", "technology", "גשם"}

\* str.lower() of a word
Lower(w) == IF w = "Election" THEN "election" ELSE w

\* the keywords of the three tables that are substrings of a word (Python's
\* "keyword in word"); "Election" as it is written holds none
Occurring(w) ==
    CASE w = "election" -> {"election"}
      [] w = "ממשלה" -> {"ממשלה"}
      [] w = "פוליטיקה" -> {"פוליטי", "פוליטיקה"}
      [] w = "שחקן" -> {"שחקן"}
      [] w = "כדורגל" -> {"כדורגל"}
      [] w = "technology" -> {"tech", "technology"}
      [] OTHER -> {}

\* text = (title + ' ' + content).lower()
TextOf(title, content) ==
    [i \in 1..Len(title \o content) |-> Lower((title \o content)[i])]

\* keyword in text
In(keyword, text) == \E i \in 1..Len(text) : keyword \in Occurring(text[i])

\* sum(1 for kw in keywords if kw in text)
CountIn(keywords, text) ==
    Cardinality({k \in 1..Len(keywords) : In(keywords[k], text)})

\* categories of detect_category, in dict order
detect_category_categories ==
    <<[category |-> "politics",
       keywords |-> <<"פוליטי", "פוליטיקה", "כנסת", "ממשלה", "בנט", "לפיד", "נתניהו", "חוק", "חוקים">>],
      [category |-> "business",
       keywords |-> <<"כלכלי", "כלכלה", "בורסה", "שוק", "מניות", "עסקים", "חברה", "חברות">>],
      [category |-> "technology",
       keywords |-> <<"טכנולוגיה", "הייטק", "סטארט-אפ", "חדשנות", "דיגיטלי", "מחשבים", "תוכנה">>],
      [category |-> "sports",
       keywords |-> <<"ספורט", "כדורגל", "כדורסל", "שחקן", "קבוצה", "משחק", "תחרות">>],
      [category |-> "entertainment",
       keywords |-> <<"בידור", "תרבות", "סרט", "סדרה", "שחקן", "שחקנית", "מוזיקה">>],
      [category |-> "health",
       keywords |-> <<"בריאות", "רפואה", "מחלה", "טיפול", "חולה", "רופא", "בית חולים">>],
      [category |-> "science",
       keywords |-> <<"מדע", "מחקר", "חלל", "מדענים", "תגלית", "ניסוי">>]>>

\* categories of FeedAggregator._detect_category, in dict order
FeedAggregator_categories ==
    <<[category |-> "politics",
       he |-> <<"פוליטי", "ממשלה", "כנסת", "בחירות", "מפלגה">>,
       en |-> <<"politics", "government", "election", "party", "minister">>],
      [category |-> "business",
       he |-> <<"כלכלה", "בורסה", "שוק", "השקעות", "חברה">>,
       en |-> <<"business", "economy", "market", "stock", "company">>],
      [category |-> "technology",
       he |-> <<"טכנולוגיה", "הייטק", "חדשנות", "דיגיטל", "תוכנה">>,
       en |-> <<"technology", "tech", "innovation", "digital", "software">>],
      [category |-> "sports",
       he |-> <<"ספורט", "כדורגל", "כדורסל", "תחרות", "שחקן">>,
       en |-> <<"sports", "football", "basketball", "game", "player">>],
      [category |-> "entertainment",
       he |-> <<"בידור", "תרבות", "סרט", "מוזיקה", "טלוויזיה">>,
       en |-> <<"entertainment", "culture", "movie", "music", "tv">>],
      [category |-> "health",
       he |-> <<"בריאות", "רפואה", "מחלה", "טיפול", "חולה">>,
       en |-> <<"health", "medical", "disease", "treatment", "patient">>],
      [category |-> "science",
       he |-> <<"מדע", "מחקר", "חלל", "פיזיקה", "כימיה">>,
       en |-> <<"science", "research", "space", "physics", "chemistry">>]>>

\* categories of NewsScraper.detect_category, in dict order
NewsScraper_categories ==
    <<[category |-> "politics",
       keywords |-> <<"פוליטי", "ממשלה", "כנסת", "בחירות">>],
      [category |-> "business",
       keywords |-> <<"כלכלה", "בורסה", "שוק", "חברה">>],
      [category |-> "technology",
       keywords |-> <<"טכנולוגיה", "הייטק", "חדשנות", "דיגיטל">>],
      [category |-> "sports",
       keywords |-> <<"ספורט", "כדורגל", "כדורסל", "אולימפיאדה">>],
      [category |-> "entertainment",
       keywords |-> <<"בידור", "תרבות", "סרט", "מוזיקה">>],
      [category |-> "health",
       keywords |-> <<"בריאות", "רפואה", "מחלה", "טיפול">>],
      [category |-> "science",
       keywords |-> <<"מדע", "מחקר", "חלל", "פיזיקה">>]>>

\* max(scores.values())
RECURSIVE MaxOf(_)
MaxOf(scores) ==
    IF Len(scores) = 1 THEN scores[1]
    ELSE LET m == MaxOf(Tail(scores))
         IN IF scores[1] >= m THEN scores[1] ELSE m

\* max(scores.items(), key=lambda x: x[1]): the first item of greatest
\* score, in dict order
FirstOfScore(scores, m) ==
    CHOOSE i \in 1..Len(scores) :
        scores[i] = m /\ \A j \in 1..(i - 1) : scores[j] # m

\* detect_category without its test max_score > 0
detect_category_NoDefault(title, content) ==
    LET text == TextOf(title, content)
        scores == [i \in 1..Len(detect_category_categories) |->
                     CountIn(detect_category_categories[i].keywords, text)]
    IN detect_category_categories[FirstOfScore(scores, MaxOf(scores))].category

\* detect_category(title, content) of feed_aggregator.py
detect_category(title, content) ==
    LET text == TextOf(title, content)
        scores == [i \in 1..Len(detect_category_categories) |->
                     CountIn(detect_category_categories[i].keywords, text)]
        max_score == MaxOf(scores)
    IN IF max_score > 0
       THEN detect_category_categories[FirstOfScore(scores, max_score)].category
       ELSE "general"

\* the loop of FeedAggregator._detect_category from category i on: the
\* first category one of whose keywords, of either list, is in the text
RECURSIVE FirstMatching(_, _)
FirstMatching(i, text) ==
    IF i > Len(FeedAggregator_categories) THEN "general"
    ELSE IF \/ \E k \in 1..Len(FeedAggregator_categories[i].he) :
                  In(FeedAggregator_categories[i].he[k], text)
            \/ \E k \in 1..Len(FeedAggregator_categories[i].en) :
                  In(FeedAggregator_categories[i].en[k], text)
         THEN FeedAggregator_categories[i].category
         ELSE FirstMatching(i + 1, text)

\* FeedAggregator._detect_category(title, content)
FeedAggregator_detect_category(title, content) ==
    FirstMatching(1, TextOf(title, content))

\* the loop of NewsScraper.detect_category from category i on
RECURSIVE ScanMatches(_, _, _, _)
ScanMatches(i, text, max_matches, detected_category) ==
    IF i > Len(NewsScraper_categories) THEN detected_category
    ELSE LET matches == CountIn(NewsScraper_categories[i].keywords, text)
         IN IF matches > max_matches
            THEN ScanMatches(i + 1, text, matches,
                             NewsScraper_categories[i].category)
            ELSE ScanMatches(i + 1, text, max_matches, detected_category)

\* NewsScraper.detect_category(title, content)
NewsScraper_detect_category(title, content) ==
    ScanMatches(1, TextOf(title, content), 0, "general")

\* a title and a content are handed to the categorizers
CategorizerInit ==
    /\ cache = InitCache
    /\ now = 0
    /\ req = [r \in Reqs |-> IdleReq]
    /\ gn = IdleCall
    /\ cz \in [title : SeqsUpTo(Words, MaxTitle),
                content : SeqsUpTo(Words, MaxContent),
                detect_category : {"none"}, FeedAggregator : {"none"},
                NewsScraper : {"none"}]
    /\ fr = IdleFeeds
    /\ rt = IdleRetry
    /\ ex = NoPage
    /\ tn = IdleTrending

DetectCategory ==
    /\ cz.detect_category = "none"
    /\ cz' = [cz EXCEPT !.detect_category =
                 detect_category(cz.title, cz.content)]
    /\ UNCHANGED <<cache, now, req, gn, fr, rt, ex, tn>>

FeedAggregatorDetectCategory ==
    /\ cz.FeedAggregator = "none"
    /\ cz' = [cz EXCEPT !.FeedAggregator =
                 FeedAggregator_detect_category(cz.title, cz.content)]
    /\ UNCHANGED <<cache, now, req, gn, fr, rt, ex, tn>>

NewsScraperDetectCategory ==
    /\ cz.NewsScraper = "none"
    /\ cz' = [cz EXCEPT !.NewsScraper =
                 NewsScraper_detect_category(cz.title, cz.content)]
    /\ UNCHANGED <<cache, now, req, gn, fr, rt, ex, tn>>

CategorizerNext ==
    \/ DetectCategory
    \/ FeedAggregatorDetectCategory
    \/ NewsScraperDetectCategory

CategorizerSpec == CategorizerInit /\ [][CategorizerNext]_vars

(***************************************************************************)
(* The module's merge pipeline: get_news, fetch_world_news,                *)
(* fetch_rss_feeds and fetch_rss_feed.                                     *)
(***************************************************************************)
\* an entry as fetch_rss_feed reads it.  scan tells that the entry has
\* neither media_content nor media_thumbnail and has a non-empty links
\* list, so that the loop "for link in entry.links" runs
RssEntries ==
    [link : 1..MaxLink, published : 0..MaxPub, scan : BOOLEAN,
     title : {<<>>}, summary : {<<>>}]

RssDocs == SeqsUpTo(RssEntries, MaxEntries)

RssOutcomes ==
    [kind : {"ok"}, entries : RssDocs]
    \cup [kind : {"status", "timeout", "error"}, entries : {<<>>}]

\* the dict built for one entry.  The loop variable of the links scan is
\* named link too: once the loop has run, 'url': link is the link dict
\* the loop stopped on, and no longer the entry's link string
RssItem(entry, source, i) ==
    [title |-> entry.title,
     url |-> IF entry.scan THEN DictUrl(entry.link, source, i)
             ELSE StrUrl(entry.link),
     published_at |-> entry.published,
     summary |-> entry.summary,
     source |-> source,
     category |-> detect_category(entry.title, entry.summary)]

\* fetch_rss_feed: the items of one source for one answer
fetch_rss_feed(source, out) ==
    IF out.kind = "ok"
    THEN LET es == Take(out.entries, RssEntryCap)
         IN [i \in 1..Len(es) |-> RssItem(es[i], source, i)]
    ELSE <<>>

\* an article of the headline API
Articles == [url : 1..MaxLink, publishedAt : 1..MaxPub]

ApiOutcomes ==
    [kind : {"ok"}, articles : SeqsUpTo(Articles, MaxEntries)]
    \cup [kind : {"nokey", "status", "error"}, articles : {<<>>}]

\* fetch_world_news(category)
fetch_world_news(out, category) ==
    IF out.kind = "ok"
    THEN [i \in 1..Len(out.articles) |->
            [title |-> <<>>,
             url |-> StrUrl(out.articles[i].url),
             published_at |-> out.articles[i].publishedAt,
             summary |-> <<>>,
             source |-> "newsapi",
             category |-> IF category # "" THEN category ELSE "general"]]
    ELSE <<>>

\* fetch_rss_feeds, after the gather: the results in the order of the
\* tasks, which is the order of RSS_FEEDS
RECURSIVE Extend(_, _)
Extend(results, n) ==
    IF n = 0 THEN <<>> ELSE Extend(results, n - 1) \o results[n].result

fetch_rss_feeds(results) == Extend(results, Len(results))

\* an insertion that puts x before the elements of equal key
RECURSIVE InsertDescUnstable(_, _)
InsertDescUnstable(sorted, x) ==
    IF sorted = <<>> THEN <<x>>
    ELSE IF sorted[1].published_at > x.published_at
         THEN <<sorted[1]>> \o InsertDescUnstable(Tail(sorted), x)
         ELSE <<x>> \o sorted

\* x is put behind every element whose key is not smaller: equal keys keep
\* their order (list.sort is stable, also with reverse=True)
RECURSIVE InsertDesc(_, _)
InsertDesc(sorted, x) ==
    IF sorted = <<>> THEN <<x>>
    ELSE IF sorted[1].published_at >= x.published_at
         THEN <<sorted[1]>> \o InsertDesc(Tail(sorted), x)
         ELSE <<x>> \o sorted

\* all_news.sort(key=lambda x: x['published_at'], reverse=True)
RECURSIVE SortDesc(_)
SortDesc(s) ==
    IF s = <<>> THEN <<>>
    ELSE InsertDesc(SortDesc(SubSeq(s, 1, Len(s) - 1)), s[Len(s)])

\* the loop over all_news with seen_urls
RECURSIVE Unique(_, _)
Unique(s, seen_urls) ==
    IF s = <<>> THEN <<>>
    ELSE IF s[1].url \notin seen_urls
         THEN <<s[1]>> \o Unique(Tail(s), seen_urls \cup {s[1].url})
         ELSE Unique(Tail(s), seen_urls)

\* some url is a link dict
Unhashable(s) == \E i \in 1..Len(s) : ~s[i].url.str

\* get_news after its gather.  "item['url'] not in seen_urls" hashes the
\* url.  Where the feedparser in use gives FeedParserDict a __hash__ (the
\* id of the object), a link dict is a key of its own and its item is
\* kept; where it does not, the test raises TypeError on the first such
\* item, and get_news catches nothing
get_news(world_news, rss_news, hashable) ==
    LET all_news == SortDesc(world_news \o rss_news)
    IN IF Unhashable(all_news) /\ ~hashable
       THEN [how |-> "raised", ret |-> <<>>]
       ELSE [how |-> "returned", ret |-> Unique(all_news, {})]

\* get_news(category) is called: both tasks are created
GetNewsCall ==
    /\ gn.pc = "idle"
    /\ \E category \in {"", "politics"} :
         gn' = [IdleCall EXCEPT !.pc = "gather", !.category = category]
    /\ UNCHANGED <<cache, now, req, cz, fr, rt, ex, tn>>

\* the task of fetch_world_news ends
FetchWorldNewsDone ==
    /\ gn.pc = "gather"
    /\ ~gn.world.done
    /\ \E out \in ApiOutcomes :
         gn' = [gn EXCEPT !.world =
                  [done |-> TRUE,
                   result |-> fetch_world_news(out, gn.category)]]
    /\ UNCHANGED <<cache, now, req, cz, fr, rt, ex, tn>>

\* the task of one fetch_rss_feed ends; the tasks end in any order
FetchRssFeedDone(i) ==
    /\ gn.pc = "gather"
    /\ ~gn.feeds[i].done
    /\ \E out \in RssOutcomes :
         gn' = [gn EXCEPT !.feeds[i] =
                  [done |-> TRUE,
                   result |-> fetch_rss_feed(RSS_FEEDS[i], out)]]
    /\ UNCHANGED <<cache, now, req, cz, fr, rt, ex, tn>>

\* both gathers are over: merge, sort, remove duplicates, return
GetNewsMerge ==
    /\ gn.pc = "gather"
    /\ gn.world.done
    /\ \A i \in 1..Len(RSS_FEEDS) : gn.feeds[i].done
    /\ \E hashable \in BOOLEAN :
         LET call == get_news(gn.world.result, fetch_rss_feeds(gn.feeds),
                              hashable)
         IN gn' = [gn EXCEPT !.pc = "done", !.how = call.how,
                             !.ret = call.ret]
    /\ UNCHANGED <<cache, now, req, cz, fr, rt, ex, tn>>

MergeNext ==
    \/ GetNewsCall
    \/ FetchWorldNewsDone
    \/ \E i \in 1..Len(RSS_FEEDS) : FetchRssFeedDone(i)
    \/ GetNewsMerge

MergeSpec == Init /\ [][MergeNext]_vars

(***************************************************************************)
(* fetch_rss_feeds, task by task, on feed entries that carry a title: the  *)
(* scatter-gather over the main feeds, and what get_news makes of what it  *)
(* returns.                                                                *)
(***************************************************************************)
\* self.source_display_names of FeedAggregator.__init__
source_display_names ==
    [ynet |-> "Ynet", walla |-> "Walla", mako |-> "Mako", n12 |-> "N12",
     kan |-> "Kan", haaretz |-> "Haaretz", israelhayom |-> "Israel Hayom",
     globes |-> "Globes", calcalist |-> "Calcalist", maariv |-> "Maariv",
     sport5 |-> "Sport5", timesofisrael |-> "Times of Israel",
     jpost |-> "Jerusalem Post"]

\* an entry with media_content (the links are not scanned), with a link
\* element or without one (entry.get('link', '') is then ''), and with a
\* title whose only keyword is English or Hebrew
FeedEntries ==
    [link : {EmptyStr, 1}, published : {1}, scan : {FALSE},
     title : {<<"Election">>, <<"ממשלה">>}, summary : {<<>>}]

\* one GET of a main feed: a 200 answer with a document, another status,
\* a timeout of the request, another exception of the client
FeedOutcomes ==
    [kind : {"ok"}, entries : SeqsUpTo(FeedEntries, MaxEntries)]
    \cup [kind : {"status", "timeout", "error"}, entries : {<<>>}]

\* fetch_rss_feeds is called: the session is opened, one task per feed
FetchRssFeedsCall ==
    /\ fr.pc = "idle"
    /\ fr' = [IdleFeeds EXCEPT !.pc = "gather"]
    /\ UNCHANGED <<cache, now, req, gn, cz, rt, ex, tn>>

\* the task of one feed ends: fetch_rss_feed returns its items, or an
\* empty list where the GET failed; the tasks end in any order
FeedTaskDone(i) ==
    /\ fr.pc = "gather"
    /\ ~fr.tasks[i].done
    /\ \E out \in FeedOutcomes :
         fr' = [fr EXCEPT !.tasks[i] =
                  [done |-> TRUE, out |-> out,
                   result |-> fetch_rss_feed(RSS_FEEDS[i], out)]]
    /\ UNCHANGED <<cache, now, req, gn, cz, rt, ex, tn>>

\* the results put together in the order in which the tasks ended
RECURSIVE ExtendInOrder(_, _, _)
ExtendInOrder(results, order, n) ==
    IF n = 0 THEN <<>>
    ELSE ExtendInOrder(results, order, n - 1) \o results[order[n]].result

FetchRssFeedsReturnAsCompleted ==
    /\ fr.pc = "gather"
    /\ \A i \in 1..Len(RSS_FEEDS) : fr.tasks[i].done
    /\ fr' = [fr EXCEPT !.pc = "returned",
                        !.all_entries =
                            ExtendInOrder(fr.tasks, fr.order, Len(fr.order))]
    /\ UNCHANGED <<cache, now, req, gn, cz, rt, ex, tn>>

\* a gather that ends as soon as one task has failed
FetchRssFeedsReturnFailFast ==
    /\ fr.pc = "gather"
    /\ \/ \A i \in 1..Len(RSS_FEEDS) : fr.tasks[i].done
       \/ \E i \in 1..Len(RSS_FEEDS) :
              fr.tasks[i].done /\ fr.tasks[i].out.kind # "ok"
    /\ fr' = [fr EXCEPT !.pc = "returned",
                        !.all_entries = fetch_rss_feeds(fr.tasks)]
    /\ UNCHANGED <<cache, now, req, gn, cz, rt, ex, tn>>

\* gather(*tasks, return_exceptions=True) ends when every task has ended;
\* the results are put together in the order of the tasks and returned
FetchRssFeedsReturn ==
    /\ fr.pc = "gather"
    /\ \A i \in 1..Len(RSS_FEEDS) : fr.tasks[i].done
    /\ fr' = [fr EXCEPT !.pc = "returned",
                        !.all_entries = fetch_rss_feeds(fr.tasks)]
    /\ UNCHANGED <<cache, now, req, gn, cz, rt, ex, tn>>

\* get_news sorts what fetch_rss_feeds returned and removes the duplicates
\* (the headline API gives nothing: its key is not configured)
GetNewsUnique ==
    /\ fr.pc = "returned"
    /\ fr' = [fr EXCEPT !.pc = "merged",
                        !.unique_news = get_news(<<>>, fr.all_entries, TRUE).ret]
    /\ UNCHANGED <<cache, now, req, gn, cz, rt, ex, tn>>

FeedNext ==
    \/ FetchRssFeedsCall
    \/ \E i \in 1..Len(RSS_FEEDS) : FeedTaskDone(i)
    \/ FetchRssFeedsReturn
    \/ GetNewsUnique

FeedSpec == Init /\ [][FeedNext]_vars

(***************************************************************************)
(* fetch_rss_feeds with the order in which its tasks end on record.  Every *)
(* main feed serves the same two entries or times out.                     *)
(***************************************************************************)
OrderedOutcomes ==
    {[kind |-> "ok",
      entries |-> <<[link |-> 1, published |-> 1, scan |-> FALSE,
                     title |-> <<"Election">>, summary |-> <<>>],
                    [link |-> 1, published |-> 1, scan |-> FALSE,
                     title |-> <<"ממשלה">>, summary |-> <<>>]>>],
     [kind |-> "timeout", entries |-> <<>>]}

\* the task of one feed ends, after those named in order
OrderedTaskDone(i) ==
    /\ fr.pc = "gather"
    /\ ~fr.tasks[i].done
    /\ \E out \in OrderedOutcomes :
         fr' = [fr EXCEPT !.tasks[i] =
                  [done |-> TRUE, out |-> out,
                   result |-> fetch_rss_feed(RSS_FEEDS[i], out)],
                !.order = Append(@, i)]
    /\ UNCHANGED <<cache, now, req, gn, cz, rt, ex, tn>>

OrderedNext ==
    \/ FetchRssFeedsCall
    \/ \E i \in 1..Len(RSS_FEEDS) : OrderedTaskDone(i)
    \/ FetchRssFeedsReturn
    \/ GetNewsUnique

OrderedSpec == Init /\ [][OrderedNext]_vars

(***************************************************************************)
(* main.get_news taken by itself: the handler against any news list the    *)
(* cache of its FeedAggregator may hold and any of the three ways its try  *)
(* statement provides for the awaited call to end (a return, TimeoutError, *)
(* another Exception).                                                     *)
(***************************************************************************)
\* the categories of the items handed to the handler
ItemCategories == {"politics", "sports", "general"}

\* a news item as the handler reads it: item.get('category')
NewsItems == [url : 1..MaxLink, category : ItemCategories]

\* the cache after an update of lines 620-623: a news list and its time
HandlerCaches ==
    {[InitCache EXCEPT !.news = news,
                       !.last_update = IF news = <<>> THEN None ELSE 0] :
        news \in SeqsUpTo(NewsItems, MaxNews)}

HandlerInit ==
    /\ cache \in HandlerCaches
    /\ now = 0
    /\ req = [r \in Reqs |-> IdleReq]
    /\ gn = IdleCall
    /\ cz = NoText
    /\ fr = IdleFeeds
    /\ rt = IdleRetry
    /\ ex = NoPage
    /\ tn = IdleTrending

\* one /api/news request: the awaited call returns the cache dict, or
\* wait_for raises TimeoutError, or another Exception reaches the handler
HandleNews(r) ==
    /\ req[r].pc = "idle"
    /\ \E how \in {"returned", "timeout", "raised"}, category \in CategoryArgs :
         LET call == [how |-> how, fetches |-> 0, cache |-> cache,
                      ret |-> cache]
             resp == get_news_response(call, cache, category)
         IN req' = [req EXCEPT ![r] =
              [IdleReq EXCEPT !.pc = "done", !.kind = "news", !.now = now,
                 !.category = category, !.outcome = how,
                 !.status = resp.status, !.data = resp.data,
                 !.from_cache = resp.from_cache]]
    /\ UNCHANGED <<cache, now, gn, cz, fr, rt, ex, tn>>

\* main.get_news_detail, given how the awaited get_latest_data() ended.
\* The HTTPException raised for a missing item is an Exception: the except
\* clause of the handler catches it and raises the one it always raises
get_news_detail(call, news_id) ==
    IF call.how # "returned"
    THEN [status |-> "500", data |-> <<>>]
    ELSE LET found == SelectSeq(call.ret.news,
                                LAMBDA item : item.url = news_id)
         IN IF found = <<>>
            THEN [status |-> "500", data |-> <<>>]
            ELSE [status |-> "200", data |-> <<found[1]>>]

\* one /api/news/{news_id} request: the awaited call returns the cache
\* dict, or an Exception reaches the handler
HandleNewsDetail(r) ==
    /\ req[r].pc = "idle"
    /\ \E how \in {"returned", "raised"}, news_id \in 1..MaxLink :
         LET call == [how |-> how, fetches |-> 0, cache |-> cache,
                      ret |-> cache]
             resp == get_news_detail(call, news_id)
         IN req' = [req EXCEPT ![r] =
              [IdleReq EXCEPT !.pc = "done", !.kind = "detail", !.now = now,
                 !.news_id = news_id, !.outcome = how,
                 !.status = resp.status, !.data = resp.data]]
    /\ UNCHANGED <<cache, now, gn, cz, fr, rt, ex, tn>>

HandlerNext ==
    \/ \E r \in Reqs : HandleNews(r)
    \/ \E r \in Reqs : HandleNewsDetail(r)
    \/ \E r \in Reqs : Respond(r)

HandlerSpec == HandlerInit /\ [][HandlerNext]_vars

(***************************************************************************)
(* fetch_with_retry against one feed url, and next to it the requests that *)
(* fetch_rss_feed and get_trending_news make for the same url.  The server *)
(* is a script: its k-th entry is what the k-th request for the url meets. *)
(***************************************************************************)
MAX_RETRIES == 3
RETRY_DELAY == 1

\* what one session.get can meet: a status 200 whose body is read, a status
\* 200 whose body cannot be read (response.text() raises), a client error
\* status, a server error status, asyncio.TimeoutError, any other exception
Responses == {"200", "200 unread", "404", "503", "TimeoutError", "ClientError"}

Transient == {"503", "TimeoutError", "ClientError"}

\* one request more than the budget, so that a request beyond it would be
\* answered
Scripts == [1 .. MAX_RETRIES + 1 -> Responses]

RetryInit ==
    /\ cache = InitCache
    /\ now = 0
    /\ req = [r \in Reqs |-> IdleReq]
    /\ gn = IdleCall
    /\ cz = NoText
    /\ fr = IdleFeeds
    /\ rt \in [pc : {"get"}, script : Scripts, attempt : {0}, seen : {<<>>},
               slept : {<<>>}, ret : {"none"},
               feed : {[requests |-> 0, items |-> FALSE]},
               trending : {[requests |-> 0, items |-> FALSE]}]
    /\ ex = NoPage
    /\ tn = IdleTrending

BackoffConstant(attempt) == RETRY_DELAY

\* the argument of asyncio.sleep after the failed attempt `attempt`
Backoff(attempt) == RETRY_DELAY * (attempt + 1)

FetchWithRetryGetOnceMore ==
    /\ rt.pc = "get"
    /\ LET response == rt.script[Len(rt.seen) + 1]
           seen == Append(rt.seen, response)
       IN  rt' = IF response = "200"
                 THEN [rt EXCEPT !.seen = seen, !.pc = "done",
                                 !.ret = "text"]
                 ELSE IF rt.attempt < MAX_RETRIES
                 THEN [rt EXCEPT !.seen = seen, !.pc = "sleep",
                                 !.slept = Append(@, Backoff(rt.attempt))]
                 ELSE [rt EXCEPT !.seen = seen, !.pc = "done",
                                 !.ret = "None"]
    /\ UNCHANGED <<cache, now, req, gn, cz, fr, ex, tn>>

\* one turn of the loop of fetch_with_retry, up to its return or its sleep:
\* the request, the reading of the body on status 200, the two except
\* clauses, and the test that decides whether to sleep
FetchWithRetryGet ==
    /\ rt.pc = "get"
    /\ LET response == rt.script[Len(rt.seen) + 1]
           seen == Append(rt.seen, response)
       IN  rt' = IF response = "200"
                 THEN [rt EXCEPT !.seen = seen, !.pc = "done",
                                 !.ret = "text"]
                 ELSE IF rt.attempt < MAX_RETRIES - 1
                 THEN [rt EXCEPT !.seen = seen, !.pc = "sleep",
                                 !.slept = Append(@, Backoff(rt.attempt))]
                 ELSE [rt EXCEPT !.seen = seen, !.pc = "done",
                                 !.ret = "None"]
    /\ UNCHANGED <<cache, now, req, gn, cz, fr, ex, tn>>

\* asyncio.sleep returns and the loop takes its next attempt
FetchWithRetryWake ==
    /\ rt.pc = "sleep"
    /\ rt' = [rt EXCEPT !.pc = "get", !.attempt = @ + 1]
    /\ UNCHANGED <<cache, now, req, gn, cz, fr, ex, tn>>

\* fetch_rss_feed fetches the feed document: one session.get, and items only
\* from a status 200 whose body is read
FetchRssFeedGet ==
    /\ rt.pc # "idle"
    /\ rt.feed.requests = 0
    /\ rt' = [rt EXCEPT !.feed = [requests |-> 1,
                                  items |-> rt.script[1] = "200"]]
    /\ UNCHANGED <<cache, now, req, gn, cz, fr, ex, tn>>

\* get_trending_news fetches one most-read feed: one session.get, and items
\* only from a status 200 whose body is read
GetTrendingNewsGet ==
    /\ rt.pc # "idle"
    /\ rt.trending.requests = 0
    /\ rt' = [rt EXCEPT !.trending = [requests |-> 1,
                                      items |-> rt.script[1] = "200"]]
    /\ UNCHANGED <<cache, now, req, gn, cz, fr, ex, tn>>

RetryNext ==
    \/ FetchWithRetryGet
    \/ FetchWithRetryWake
    \/ FetchRssFeedGet
    \/ GetTrendingNewsGet

RetrySpec == RetryInit /\ [][RetryNext]_vars

(***************************************************************************)
(* The two article-page extractors, FeedAggregator.fetch_full_content and  *)
(* extract_image_with_timeout, on one fetch of one article page.           *)
(***************************************************************************)
MaxImgs == 2

\* the values a page can carry, one per place the extractors read
SelectorSrc == 1
OgImage == 2
TwitterImage == 3
HintedSrc == 4
PlainSrc == 5
ElementText == 6

\* the keys of every entry of RSS_FEEDS
FeedInfoKeys == {"main", "trending"}

\* a parsed article page: what each lookup of the extractors finds in it.
\* None is "no such element" (or no such attribute), EmptyStr an empty
\* attribute
Pages ==
    [content_element : {None, ElementText},
     image_element   : {None, SelectorSrc},
     og_image        : {None, EmptyStr, OgImage},
     twitter_image   : {None, TwitterImage},
     imgs            : SeqsUpTo({EmptyStr, HintedSrc, PlainSrc}, MaxImgs),
     author_element  : {None, ElementText}]

\* how the fetch of the article page ends
PageOutcomes ==
    [kind : {"ok"}, page : Pages]
        \cup [kind : {"status", "TimeoutError", "ClientError"}]

Truthy(v) == v \notin {None, EmptyStr}

\* 'article' or 'news' in src.lower(), or one of the sizes in src
Hinted(src) == src = HintedSrc

RECURSIVE FirstSuch(_, _)
\* the first truthy src of imgs that is hinted, or None
FirstSuch(imgs, k) ==
    IF k > Len(imgs) THEN None
    ELSE IF Truthy(imgs[k]) /\ Hinted(imgs[k]) THEN imgs[k]
    ELSE FirstSuch(imgs, k + 1)

AllAbsent == [content |-> EmptyStr, image_url |-> None, author |-> None]

\* the body of the status-200 branch of fetch_full_content, once feed_info
\* has the three selectors
ExtractFields(page) ==
    LET selected == page.image_element
        og == IF Truthy(selected) THEN selected
              ELSE IF Truthy(page.og_image) THEN page.og_image
              ELSE selected
        first_img == IF Truthy(og) THEN og
                     ELSE IF Len(page.imgs) >= 1 /\ Truthy(page.imgs[1])
                     THEN page.imgs[1]
                     ELSE og
    IN  [content   |-> IF page.content_element # None
                       THEN page.content_element ELSE EmptyStr,
         image_url |-> first_img,
         author    |-> page.author_element]

fetch_full_content_Unguarded(source, out) ==
    IF out.kind = "status"
    THEN [how |-> "returned", value |-> AllAbsent]
    ELSE IF out.kind # "ok"
    THEN [how |-> "raised", value |-> AllAbsent]
    ELSE IF \/ \A i \in 1 .. Len(RSS_FEEDS) : RSS_FEEDS[i] # source
            \/ ~ ({"content_selector", "image_selector", "author_selector"}
                     \subseteq FeedInfoKeys)
    THEN [how |-> "raised", value |-> AllAbsent]
    ELSE [how |-> "returned", value |-> ExtractFields(out.page)]

\* FeedAggregator.fetch_full_content(url, source, session), the fetch of url
\* ending as out
fetch_full_content(source, out) ==
    IF out.kind # "ok"
    THEN [how |-> "returned", value |-> AllAbsent]
    ELSE IF \/ \A i \in 1 .. Len(RSS_FEEDS) : RSS_FEEDS[i] # source
            \/ ~ ({"content_selector", "image_selector", "author_selector"}
                     \subseteq FeedInfoKeys)
    THEN [how |-> "returned", value |-> AllAbsent]
    ELSE [how |-> "returned", value |-> ExtractFields(out.page)]

\* extract_image_with_timeout(session, url), the fetch of url ending as out
extract_image_with_timeout(out) ==
    IF out.kind # "ok"
    THEN [how |-> "returned", value |-> None]
    ELSE LET page == out.page
         IN  [how |-> "returned",
              value |-> IF Truthy(page.og_image) THEN page.og_image
                        ELSE IF Truthy(page.twitter_image)
                        THEN page.twitter_image
                        ELSE FirstSuch(page.imgs, 1)]

ExtractInit ==
    /\ cache = InitCache
    /\ now = 0
    /\ req = [r \in Reqs |-> IdleReq]
    /\ gn = IdleCall
    /\ cz = NoText
    /\ fr = IdleFeeds
    /\ rt = IdleRetry
    /\ ex \in [source : {RSS_FEEDS[i] : i \in 1 .. Len(RSS_FEEDS)},
               out : PageOutcomes,
               full : {[how |-> "pending"]},
               image : {[how |-> "pending"]}]
    /\ tn = IdleTrending

FetchFullContent ==
    /\ ex.source # "none"
    /\ ex.full.how = "pending"
    /\ ex' = [ex EXCEPT !.full = fetch_full_content(ex.source, ex.out)]
    /\ UNCHANGED <<cache, now, req, gn, cz, fr, rt, tn>>

ExtractImageWithTimeout ==
    /\ ex.source # "none"
    /\ ex.image.how = "pending"
    /\ ex' = [ex EXCEPT !.image = extract_image_with_timeout(ex.out)]
    /\ UNCHANGED <<cache, now, req, gn, cz, fr, rt, tn>>

ExtractNext ==
    \/ FetchFullContent
    \/ ExtractImageWithTimeout

ExtractSpec == ExtractInit /\ [][ExtractNext]_vars

(***************************************************************************)
(* FeedAggregator.fetch_trending_news: the top headlines, then the four    *)
(* most-read feeds in turn, each entry with a secondary fetch of its       *)
(* article page.                                                           *)
(***************************************************************************)
MaxTrendEntries == 2

\* the image url a feed entry carries in its media_content
FeedImage == 7

\* an entry of a most-read feed.  link None is an entry without a link:
\* entry.link raises AttributeError
TrendEntries ==
    {[link |-> 1, media_content |-> None, enclosures |-> None],
     [link |-> 1, media_content |-> FeedImage, enclosures |-> None],
     [link |-> None, media_content |-> None, enclosures |-> None]}

\* feed.entries of feedparser.parse(url); empty also when the url cannot be
\* fetched
TrendDocs == SeqsUpTo(TrendEntries, MaxTrendEntries)

\* what the top-headlines part leaves in trending_news: nothing (also after
\* an exception), or the item of one article
TopHeadlines ==
    {<<>>,
     <<[url |-> 2, source |-> "newsapi", image_url |-> None,
        type |-> "newsapi"]>>}

\* how the request of fetch_full_content for the article page can end; an
\* "ok" page here has every element the extractor looks for
ArticleFetches ==
    {out \in PageOutcomes :
        out.kind = "ok"
            => out.page = [content_element |-> ElementText,
                           image_element |-> SelectorSrc,
                           og_image |-> OgImage,
                           twitter_image |-> TwitterImage,
                           imgs |-> <<HintedSrc>>,
                           author_element |-> ElementText]}

\* FeedAggregator._extract_image_from_entry(entry), for an entry with neither
\* an 'image' key nor an og:image in its summary
extract_image_from_entry(entry) ==
    IF Truthy(entry.media_content) THEN entry.media_content
    ELSE IF Truthy(entry.enclosures) THEN entry.enclosures
    ELSE None

MostReadItem(entry, source, image_url) ==
    [url |-> entry.link, source |-> source, image_url |-> image_url,
     type |-> "rss-most-read"]

\* the for loop over most_read_feeds takes its next source, or the function
\* returns
NextSource(t) ==
    IF t.source < Len(most_read_feeds)
    THEN [t EXCEPT !.pc = "parse", !.source = @ + 1, !.entries = <<>>,
                   !.pos = 0]
    ELSE [t EXCEPT !.pc = "done", !.entries = <<>>, !.pos = 0]

\* the call, through the top-headlines part, up to the first most-read feed
FetchTrendingNewsCall ==
    /\ tn.pc = "idle"
    /\ \E headlines \in TopHeadlines :
          tn' = [tn EXCEPT !.pc = "parse", !.source = 1,
                           !.trending_news = headlines]
    /\ UNCHANGED <<cache, now, req, gn, cz, fr, rt, ex>>

\* feedparser.parse(url) for the current source, up to the secondary fetch
\* of its first entry.  An entry without a link raises AttributeError inside
\* the inner try and again inside its except clause, which the try around
\* the source catches
FetchTrendingNewsParse ==
    /\ tn.pc = "parse"
    /\ \E doc \in TrendDocs :
          LET entries == Take(doc, TrendingEntryCap)
              t == [tn EXCEPT !.feeds = Append(@, doc),
                              !.entries = entries]
          IN  tn' = IF entries = <<>> \/ entries[1].link = None
                    THEN NextSource(t)
                    ELSE [t EXCEPT !.pc = "secondary", !.pos = 1]
    /\ UNCHANGED <<cache, now, req, gn, cz, fr, rt, ex>>

FetchTrendingNewsSecondaryPropagating ==
    /\ tn.pc = "secondary"
    /\ \E out \in ArticleFetches \cup {[kind |-> "wait_for TimeoutError"]} :
          LET entry == tn.entries[tn.pos]
              source == most_read_feeds[tn.source]
              timed == out.kind = "wait_for TimeoutError"
              full_content ==
                  IF timed THEN AllAbsent
                  ELSE fetch_full_content(source, out).value
              image_url ==
                  IF Truthy(full_content.image_url)
                  THEN full_content.image_url
                  ELSE extract_image_from_entry(entry)
              t == [tn EXCEPT
                      !.trending_news =
                          Append(@, MostReadItem(entry, source, image_url)),
                      !.timed_out = @ \/ timed]
          IN  tn' = IF timed
                    THEN NextSource([tn EXCEPT !.timed_out = TRUE])
                    ELSE IF /\ tn.pos < Len(tn.entries)
                            /\ tn.entries[tn.pos + 1].link # None
                    THEN [t EXCEPT !.pos = @ + 1]
                    ELSE NextSource(t)
    /\ UNCHANGED <<cache, now, req, gn, cz, fr, rt, ex>>

\* the secondary fetch of the current entry ends, in a return of
\* fetch_full_content or in the TimeoutError of asyncio.wait_for; the entry's
\* item is appended and the loop goes on to the secondary fetch of the next
\* entry, to the next source, or to the return
FetchTrendingNewsSecondary ==
    /\ tn.pc = "secondary"
    /\ \E out \in ArticleFetches \cup {[kind |-> "wait_for TimeoutError"]} :
          LET entry == tn.entries[tn.pos]
              source == most_read_feeds[tn.source]
              timed == out.kind = "wait_for TimeoutError"
              full_content ==
                  IF timed THEN AllAbsent
                  ELSE fetch_full_content(source, out).value
              image_url ==
                  IF Truthy(full_content.image_url)
                  THEN full_content.image_url
                  ELSE extract_image_from_entry(entry)
              t == [tn EXCEPT
                      !.trending_news =
                          Append(@, MostReadItem(entry, source, image_url)),
                      !.timed_out = @ \/ timed]
          IN  tn' = IF /\ tn.pos < Len(tn.entries)
                       /\ tn.entries[tn.pos + 1].link # None
                    THEN [t EXCEPT !.pos = @ + 1]
                    ELSE NextSource(t)
    /\ UNCHANGED <<cache, now, req, gn, cz, fr, rt, ex>>

TrendingNewsNext ==
    \/ FetchTrendingNewsCall
    \/ FetchTrendingNewsParse
    \/ FetchTrendingNewsSecondary

TrendingNewsSpec == Init /\ [][TrendingNewsNext]_vars

(***************************************************************************)
(* Properties.                                                             *)
(***************************************************************************)
Done(r, kind) == req[r].pc = "done" /\ req[r].kind = kind

NoDuplicateUrls(s) ==
    \A i, j \in 1..Len(s) : i # j => s[i].url # s[j].url

Absent(p) == p = None \/ p = EmptyStr

RecencyOrdered(s) ==
    \A i, j \in 1..Len(s) :
        i < j =>
          /\ Absent(s[i].published_at) => Absent(s[j].published_at)
          /\ ~Absent(s[j].published_at)
               => s[i].published_at >= s[j].published_at

\* the merge order of one get_news call: the headline-API items, then the
\* feed items in the order of RSS_FEEDS
MergeOrder == gn.world.result \o fetch_rss_feeds(gn.feeds)

\* C1, C10: the news entry is never written: in every reachable state it
\* is the empty entry of __init__, so no read ever finds it unexpired and
\* no state holds a non-empty news list.
NewsEntryStaysEmpty == cache.news = <<>> /\ cache.last_update = None

\* C2: a trending read that finds the entry unexpired starts no fetch and
\* answers with exactly the trending items held in the cache.
C2_FreshTrendingReadServesCache ==
    \A r \in Reqs :
        (Done(r, "trending") /\ ~req[r].refreshed)
            => (req[r].idx = 0 /\ req[r].data = cache.trending_news)

\* C3: a step of a read whose refresh has obtained no item leaves the cache
\* (items and last update of both views) as it was, and when such a read
\* returns it answers with the items the view held before.
C3_FailedRefreshKeepsSnapshot ==
    [][\A r \in Reqs :
          /\ (req[r].pc \in {"fetch", "closing"} /\ req'[r].acc = <<>>)
               => cache' = cache
          /\ (req[r].pc = "closing" /\ req[r].acc = <<>>
                /\ req'[r].outcome = "returned")
               => req'[r].data = cache.trending_news
          /\ (req[r].pc = "idle" /\ req'[r].pc = "done"
                /\ req'[r].kind = "news" /\ req'[r].refreshed)
               => /\ cache' = cache
                  /\ req'[r].category \in {"", "all"}
                       => req'[r].data = cache.news]_vars

\* C3: a trending refresh in which all four feeds failed has answered with the
\* snapshot stored by an earlier refresh, which is still in the cache
C3_Witness ==
    \E r \in Reqs :
        /\ Done(r, "trending") /\ req[r].refreshed
        /\ req[r].outcome = "returned" /\ req[r].acc = <<>>
        /\ cache.trending_news # <<>>
        /\ req[r].data = cache.trending_news
        /\ cache.trending_last_update < req[r].now

\* C4: a news read that starts from the empty entry while a feed serves
\* entries ends with the news entry populated and its last update present.
C4_EmptyNewsBecomesFresh ==
    \A r \in Reqs :
        (Done(r, "news") /\ req[r].refreshed /\ req[r].served)
            => (cache.last_update # None /\ cache.news # <<>>)

\* C5: no list a refresh stores in the cache or a read answers with holds
\* two items of the same url.
C5_NoDuplicateUrl ==
    /\ NoDuplicateUrls(cache.news)
    /\ NoDuplicateUrls(cache.trending_news)
    /\ \A r \in Reqs : NoDuplicateUrls(req[r].data)

\* C5: the list the module's get_news returns holds no two items of the
\* same url (the part of C5 that the code keeps).
GetNewsResultUnique ==
    (gn.pc = "done" /\ gn.how = "returned") => NoDuplicateUrls(gn.ret)

\* C6 as stated: every item get_news returns is the first item of its url
\* in merge order.
C6_FirstInMergeOrderSurvives ==
    (gn.pc = "done" /\ gn.how = "returned") =>
        \A k \in 1..Len(gn.ret) :
            \E j \in 1..Len(MergeOrder) :
                /\ MergeOrder[j] = gn.ret[k]
                /\ \A i \in 1..(j - 1) : MergeOrder[i].url # gn.ret[k].url

\* C6 as amended: every url of the merged items has a survivor in the list
\* get_news returns, and the survivor is the item of that url whose
\* published_at is greatest, the first in merge order among equals.
C6_NewestThenFirstSurvives ==
    (gn.pc = "done" /\ gn.how = "returned") =>
        /\ \A j \in 1..Len(MergeOrder) :
               \E k \in 1..Len(gn.ret) : gn.ret[k].url = MergeOrder[j].url
        /\ \A k \in 1..Len(gn.ret) :
               \E j \in 1..Len(MergeOrder) :
                   /\ MergeOrder[j] = gn.ret[k]
                   /\ \A i \in 1..Len(MergeOrder) :
                          MergeOrder[i].url = gn.ret[k].url =>
                            \/ MergeOrder[i].published_at
                                   < MergeOrder[j].published_at
                            \/ /\ MergeOrder[i].published_at
                                      = MergeOrder[j].published_at
                               /\ (i >= j \/ MergeOrder[i] = MergeOrder[j])

\* C6: two merged items share a url, the later one in merge order is the newer,
\* and it is the one get_news returned
C6_Witness ==
    /\ gn.pc = "done" /\ gn.how = "returned"
    /\ \E i, j \in 1..Len(MergeOrder) :
           /\ i < j
           /\ MergeOrder[i].url = MergeOrder[j].url
           /\ MergeOrder[i].published_at < MergeOrder[j].published_at
           /\ \E k \in 1..Len(gn.ret) : gn.ret[k] = MergeOrder[j]
           /\ \A k \in 1..Len(gn.ret) : gn.ret[k] # MergeOrder[i]

\* C7: every list a refresh stores or a read answers with is ordered by
\* published_at descending, the items without published_at last.
C7_RecencyOrder ==
    /\ RecencyOrdered(cache.news)
    /\ RecencyOrdered(cache.trending_news)
    /\ \A r \in Reqs : RecencyOrdered(req[r].data)

\* C8: no step of a read that is still fetching, no cancellation by the
\* deadline and no step after it writes the cache: the cache changes only
\* in the step in which a refresh that was not cancelled returns.
C8_CancellationWritesNothing ==
    [][/\ \A r \in Reqs :
             (req[r].pc = "fetch" \/ req'[r].outcome = "timeout"
                \/ req[r].outcome = "timeout")
               => cache' = cache
       /\ cache' # cache
            => \E r \in Reqs :
                   req[r].pc = "closing" /\ req'[r].outcome = "returned"]_vars

\* C8: a refresh was cancelled after it had collected items: they are not in
\* the cache, which is still the empty entry
C8_Witness ==
    \E r \in Reqs :
        /\ Done(r, "trending") /\ req[r].outcome = "timeout"
        /\ req[r].acc # <<>>
        /\ cache = InitCache

\* C9: a /api/news request that ends while no news snapshot was ever stored
\* is answered with success and an empty list, never with an error.
C9_NoErrorWithoutSnapshot ==
    \A r \in Reqs :
        (Done(r, "news") /\ cache.last_update = None)
            => (req[r].status = "success" /\ req[r].data = <<>>)

\* C9: a news read whose refresh failed, with no snapshot, was answered
C9_Witness ==
    \E r \in Reqs :
        /\ Done(r, "news") /\ req[r].refreshed
        /\ cache.last_update = None /\ cache.news = <<>>
        /\ req[r].status = "success" /\ req[r].data = <<>>

\* C11: a trending read whose refresh obtained no item, raised, or was cut
\* by the deadline is answered with success, with the cached trending
\* list when that list is not empty and otherwise with the first
\* NewsFallbackCap items of the cached news list.
C11_TrendingFallbackPriority ==
    [][\A r \in Reqs :
          (/\ req[r].pc \in {"fetch", "closing"}
           /\ req'[r].pc = "done"
           /\ \/ req'[r].acc = <<>>
              \/ req'[r].outcome \in {"timeout", "caught"})
            => /\ req'[r].status = "success"
               /\ cache' = cache
               /\ req'[r].data =
                      IF cache.trending_news # <<>>
                      THEN cache.trending_news
                      ELSE Take(cache.news, NewsFallbackCap)]_vars

\* C11: a refresh that had collected items was cut by the deadline while
\* the cache held an older trending list, and the read was answered with
\* that older list
C11_Witness ==
    \E r \in Reqs :
        /\ Done(r, "trending") /\ req[r].outcome \in {"timeout", "caught"}
        /\ req[r].acc # <<>>
        /\ cache.trending_news # <<>>
        /\ cache.trending_news # req[r].acc
        /\ req[r].data = cache.trending_news
        /\ req[r].status = "success"

FilterOnNormalPath ==
    \A r \in Reqs :
        (Done(r, "news") /\ req[r].outcome = "returned"
           /\ req[r].category \notin {"", "all"})
            => req[r].data =
                 SelectSeq(cache.news,
                           LAMBDA item : item.category = req[r].category)

\* the scores of a text in a table of one keyword list per category, and
\* in a table of two
Scores1(table, text) ==
    [i \in 1..Len(table) |-> CountIn(table[i].keywords, text)]

Scores2(table, text) ==
    [i \in 1..Len(table) |->
        CountIn(table[i].he, text) + CountIn(table[i].en, text)]

CzText == TextOf(cz.title, cz.content)

\* when one category scores strictly more than every other, it is the result
HighestWins(scores, table, result) ==
    \A i \in 1..Len(table) :
        (\A j \in 1..Len(table) : j # i => scores[i] > scores[j])
            => result = table[i].category

\* when several categories share a positive greatest score, the result is
\* the first of them in the table
FirstOfTiedWins(scores, table, result) ==
    \A i, k \in 1..Len(table) :
        (/\ i < k
         /\ scores[i] > 0
         /\ scores[i] = scores[k]
         /\ \A j \in 1..Len(table) : scores[j] <= scores[i]
         /\ \A j \in 1..(i - 1) : scores[j] < scores[i])
            => result = table[i].category

\* the result is general exactly when no keyword of the table is in the
\* text, and otherwise a category of the table
GeneralIffNoMatch(scores, table, result) ==
    /\ result = "general" <=> \A i \in 1..Len(table) : scores[i] = 0
    /\ result # "general"
         => \E i \in 1..Len(table) : result = table[i].category

\* C15: when one category has strictly more keyword matches in the text
\* than every other category, detect_category and
\* FeedAggregator._detect_category return that category.
C15_HighestScoreWins ==
    /\ cz.detect_category # "none"
         => HighestWins(Scores1(detect_category_categories, CzText),
                        detect_category_categories, cz.detect_category)
    /\ cz.FeedAggregator # "none"
         => HighestWins(Scores2(FeedAggregator_categories, CzText),
                        FeedAggregator_categories, cz.FeedAggregator)

\* C15: detect_category and NewsScraper.detect_category, which count the
\* matches, return the category of strictly greatest score (the part of
\* C15 that the code keeps).
CountingCategorizersPickHighest ==
    /\ cz.detect_category # "none"
         => HighestWins(Scores1(detect_category_categories, CzText),
                        detect_category_categories, cz.detect_category)
    /\ cz.NewsScraper # "none"
         => HighestWins(Scores1(NewsScraper_categories, CzText),
                        NewsScraper_categories, cz.NewsScraper)

\* C16: when several categories tie at a positive greatest score, each of
\* the three categorizers returns the tied category declared first in its
\* table, and evaluating a categorizer again on the same title and
\* content gives the category it gave before.
C16_TieBreakInTableOrder ==
    /\ cz.detect_category # "none"
         => /\ FirstOfTiedWins(Scores1(detect_category_categories, CzText),
                               detect_category_categories, cz.detect_category)
            /\ cz.detect_category = detect_category(cz.title, cz.content)
    /\ cz.NewsScraper # "none"
         => /\ FirstOfTiedWins(Scores1(NewsScraper_categories, CzText),
                               NewsScraper_categories, cz.NewsScraper)
            /\ cz.NewsScraper
                 = NewsScraper_detect_category(cz.title, cz.content)
    /\ cz.FeedAggregator # "none"
         => /\ FirstOfTiedWins(Scores2(FeedAggregator_categories, CzText),
                               FeedAggregator_categories, cz.FeedAggregator)
            /\ cz.FeedAggregator
                 = FeedAggregator_detect_category(cz.title, cz.content)

\* C16: detect_category and NewsScraper.detect_category break a tie at the
\* greatest score in table order (the part of C16 that the code keeps).
CountingCategorizersBreakTiesInOrder ==
    /\ cz.detect_category # "none"
         => FirstOfTiedWins(Scores1(detect_category_categories, CzText),
                            detect_category_categories, cz.detect_category)
    /\ cz.NewsScraper # "none"
         => FirstOfTiedWins(Scores1(NewsScraper_categories, CzText),
                            NewsScraper_categories, cz.NewsScraper)

\* C17: detect_category and FeedAggregator._detect_category return general
\* exactly when the text holds no keyword of their table, and one of the
\* seven categories of the table otherwise.
C17_GeneralIffNoKeyword ==
    /\ cz.detect_category # "none"
         => GeneralIffNoMatch(Scores1(detect_category_categories, CzText),
                              detect_category_categories, cz.detect_category)
    /\ cz.FeedAggregator # "none"
         => GeneralIffNoMatch(Scores2(FeedAggregator_categories, CzText),
                              FeedAggregator_categories, cz.FeedAggregator)

\* C17: a text that is not empty and holds no keyword of either table was
\* categorized as general by both categorizers
C17_Witness ==
    /\ CzText # <<>>
    /\ \A i \in 1..Len(detect_category_categories) :
           Scores1(detect_category_categories, CzText)[i] = 0
    /\ \A i \in 1..Len(FeedAggregator_categories) :
           Scores2(FeedAggregator_categories, CzText)[i] = 0
    /\ cz.detect_category = "general"
    /\ cz.FeedAggregator = "general"

\* the items of all_entries that carry the key of feed i
EntriesOfFeed(i) ==
    SelectSeq(fr.all_entries, LAMBDA item : item.source = RSS_FEEDS[i])

\* C13: when fetch_rss_feeds returns, every task has run to its end, and
\* what it returns holds no item of a feed whose GET failed and, for every
\* feed whose GET succeeded, one item per entry of its document, in the
\* order of the document; nothing else is in it.
C13_SourceIsolation ==
    fr.pc \in {"returned", "merged"} =>
        /\ \A i \in 1..Len(RSS_FEEDS) :
               /\ fr.tasks[i].done
               /\ fr.tasks[i].out.kind # "ok" => EntriesOfFeed(i) = <<>>
               /\ fr.tasks[i].out.kind = "ok" =>
                     /\ Len(EntriesOfFeed(i)) = Len(fr.tasks[i].out.entries)
                     /\ \A k \in 1..Len(EntriesOfFeed(i)) :
                            /\ EntriesOfFeed(i)[k].url.href
                                   = fr.tasks[i].out.entries[k].link
                            /\ EntriesOfFeed(i)[k].title
                                   = fr.tasks[i].out.entries[k].title
        /\ \A k \in 1..Len(fr.all_entries) :
               \E i \in 1..Len(RSS_FEEDS) :
                   fr.all_entries[k].source = RSS_FEEDS[i]
        /\ \A k, l \in 1..Len(fr.all_entries) :
               \A i, j \in 1..Len(RSS_FEEDS) :
                   (/\ k < l
                    /\ fr.all_entries[k].source = RSS_FEEDS[i]
                    /\ fr.all_entries[l].source = RSS_FEEDS[j]) => i <= j

\* C13: fetch_rss_feeds has returned after one GET timed out, one had
\* another status and one raised, and it returned the items of the other
\* two feeds, one of which comes behind a failed feed
C13_Witness ==
    /\ fr.pc = "returned"
    /\ \E i, j, k \in 1..Len(RSS_FEEDS) :
           /\ fr.tasks[i].out.kind = "timeout"
           /\ fr.tasks[j].out.kind = "status"
           /\ fr.tasks[k].out.kind = "error"
    /\ fr.tasks[1].out.kind # "ok"
    /\ Len(fr.all_entries) = 2
    /\ fr.all_entries[1].source # fr.all_entries[2].source

\* C14: no item fetch_rss_feeds returns, and no item get_news keeps, has
\* an empty url.
C14_NonEmptyUrl ==
    /\ \A k \in 1..Len(fr.all_entries) :
           fr.all_entries[k].url # StrUrl(EmptyStr)
    /\ \A k \in 1..Len(fr.unique_news) :
           fr.unique_news[k].url # StrUrl(EmptyStr)

\* every word of the text is "election", and there is one
OnlyElection(text) ==
    text # <<>> /\ \A i \in 1..Len(text) : text[i] = "election"

\* C18: a feed item whose title and summary hold the keyword "election"
\* and no other keyword is in the news list get_news returns with the
\* category politics.
C18_ElectionIsPolitics ==
    \A k \in 1..Len(fr.unique_news) :
        OnlyElection(TextOf(fr.unique_news[k].title,
                            fr.unique_news[k].summary))
            => fr.unique_news[k].category = "politics"

\* the display name of a source key, the key itself where it has none
DisplayName(source) ==
    IF source \in DOMAIN source_display_names
    THEN source_display_names[source]
    ELSE source

\* C20: every item a task of fetch_rss_feeds returns carries as source the
\* display name of the feed it comes from.
C20_SourceDisplayName ==
    \A i \in 1..Len(RSS_FEEDS) :
        \A k \in 1..Len(fr.tasks[i].result) :
            fr.tasks[i].result[k].source = DisplayName(RSS_FEEDS[i])

\* C19: every step that changes the items or the last update of a view
\* writes both from one refresh, the list that refresh has fetched and the
\* time at which it started, in the step in which that refresh ends; and
\* every request that is answered gets an empty list or the whole list the
\* cache then holds.
C19_WholeEntryReplacement ==
    [][/\ (\/ cache'.trending_news # cache.trending_news
           \/ cache'.trending_last_update # cache.trending_last_update)
            => \E r \in DOMAIN req :
                   /\ req[r].pc = "closing" /\ req'[r].pc = "done"
                   /\ req[r].acc # <<>>
                   /\ cache'.trending_news = req[r].acc
                   /\ cache'.trending_last_update = req[r].now
       /\ cache'.news = cache.news
       /\ cache'.last_update = cache.last_update
       /\ \A r \in DOMAIN req :
              (req[r].pc # "done" /\ req'[r].pc = "done")
                => \/ req'[r].data = <<>>
                   \/ /\ req'[r].kind = "trending"
                      /\ req'[r].data = cache'.trending_news]_vars

\* C19: two refreshes overlapped and both stored their list; the one that
\* started first ended last, and the cache holds its list with its time
C19_Witness ==
    \E r, q \in DOMAIN req :
        /\ r # q
        /\ Done(r, "trending") /\ req[r].outcome = "returned"
        /\ Done(q, "trending") /\ req[q].outcome = "returned"
        /\ req[r].acc # <<>> /\ req[q].acc # <<>>
        /\ req[r].acc # req[q].acc
        /\ req[r].now < req[q].now
        /\ req[q].data = req[q].acc
        /\ cache.trending_news = req[r].acc
        /\ cache.trending_last_update = req[r].now

\* the step in which slot r takes up a read of the given view
TakesUp(r, kind) ==
    req[r].pc = "idle" /\ req'[r].pc # "idle" /\ req'[r].kind = kind

\* C21 as stated: a read starts a refresh exactly when its view has no
\* last update or at least the TTL of the view has passed since then.
C21_StaleFromTTL ==
    [][\A r \in Reqs :
          /\ TakesUp(r, "trending")
               => (req'[r].refreshed
                     <=> \/ cache.trending_last_update = None
                         \/ now - cache.trending_last_update >= TrendingTTL)
          /\ TakesUp(r, "news")
               => (req'[r].refreshed
                     <=> \/ cache.last_update = None
                         \/ now - cache.last_update >= NewsTTL)]_vars

\* C21 as amended: a read starts a refresh exactly when its view has no
\* last update or more than the TTL of the view has passed since then; a
\* read at exactly the TTL starts none.
C21_StaleAfterTTL ==
    [][\A r \in Reqs :
          /\ TakesUp(r, "trending")
               => (req'[r].refreshed
                     <=> \/ cache.trending_last_update = None
                         \/ now - cache.trending_last_update > TrendingTTL)
          /\ TakesUp(r, "news")
               => (req'[r].refreshed
                     <=> \/ cache.last_update = None
                         \/ now - cache.last_update > NewsTTL)]_vars

\* C21: a trending read made exactly TrendingTTL minutes after the last
\* update of the entry was served without a refresh
C21_Witness ==
    \E r \in Reqs :
        /\ Done(r, "trending") /\ ~req[r].refreshed
        /\ cache.trending_last_update # None
        /\ req[r].now - cache.trending_last_update = TrendingTTL

\* C22: a read that finds its view without last update or expired has,
\* when the call it awaits returns, requested at least one source.
C22_StaleReadRequestsSources ==
    \A r \in Reqs :
        (Done(r, "news") /\ req[r].refreshed /\ req[r].outcome = "returned")
            => req[r].idx >= 1

\* C22: a trending read that finds its entry expired goes through the
\* most-read feeds once, in order, one GET each, before it stores and
\* returns (the part of C22 that the code keeps).
TrendingRefreshRequestsEachFeedOnce ==
    [][\A r \in Reqs :
          /\ TakesUp(r, "trending") /\ req'[r].refreshed
               => req'[r].pc = "fetch" /\ req'[r].idx = 1
          /\ (req[r].pc = "fetch" /\ req'[r].pc = "fetch" /\ req'[r] # req[r])
               => req'[r].idx = req[r].idx + 1
          /\ (req[r].pc = "fetch" /\ req'[r].pc = "closing")
               => req[r].idx = Len(most_read_feeds)
          /\ (req[r].pc = "closing" /\ req'[r].pc # "closing")
               => req'[r].pc = "done"]_vars

\* the requests fetch_with_retry has made
Requests == Len(rt.seen)

Returned == rt.pc = "done"

C24_ClientErrorNotRetried ==
    /\ \A k \in 1 .. Requests : rt.seen[k] = "404" => k = Requests
    /\ (Requests >= 1 /\ rt.seen[Requests] = "404") => Returned

\* C25: the sleep after the k-th failed attempt is k times RETRY_DELAY, and
\* there is no sleep after the last one: a call that gave up slept
\* MAX_RETRIES - 1 times.
C25_LinearBackoff ==
    /\ \A k \in 1 .. Len(rt.slept) : rt.slept[k] = k * RETRY_DELAY
    /\ rt.pc = "sleep" => Len(rt.slept) = Requests
    /\ rt.pc = "get" => Len(rt.slept) = Requests
    /\ Returned => Len(rt.slept) = Requests - 1
    /\ Len(rt.slept) <= MAX_RETRIES - 1

C25_Witness ==
    /\ Returned /\ rt.ret = "None"
    /\ rt.slept = <<RETRY_DELAY, 2 * RETRY_DELAY>>

\* C26: a feed document whose first request fails transiently and whose
\* second would succeed contributes its items, in the news refresh
\* (fetch_rss_feed) and in the trending refresh (get_trending_news).
C26_FeedFetchRetried ==
    (rt.pc # "idle" /\ rt.script[1] \in Transient /\ rt.script[2] = "200")
        => /\ rt.feed.requests >= 1 => rt.feed.items
           /\ rt.trending.requests >= 1 => rt.trending.items

RECURSIVE FirstNonEmpty(_, _)
\* the first value of branches, from the k-th on, that is neither absent nor
\* empty; None if there is none
FirstNonEmpty(branches, k) ==
    IF k > Len(branches) THEN None
    ELSE IF Truthy(branches[k]) THEN branches[k]
    ELSE FirstNonEmpty(branches, k + 1)

PageRead == ex.out.kind = "ok" /\ ex.full.how = "returned"

\* C27: on a page fetched with status 200, the image fetch_full_content
\* returns is the first non-empty value among the imageSelector element's
\* src, the Open-Graph image, the Twitter-card image and the first hinted
\* <img> src, in this order, and absent only if all four are empty.
C27_ImageFallbackOrder ==
    PageRead
        => ex.full.value.image_url
              = FirstNonEmpty(<<ex.out.page.image_element,
                                ex.out.page.og_image,
                                ex.out.page.twitter_image,
                                FirstSuch(ex.out.page.imgs, 1)>>, 1)

\* extract_image_with_timeout, which takes no selector, returns the first
\* non-empty value among the last three of these branches.
ExtractImageFollowsMetaOrder ==
    (ex.out.kind = "ok" /\ ex.image.how = "returned")
        => ex.image.value
              = FirstNonEmpty(<<ex.out.page.og_image,
                                ex.out.page.twitter_image,
                                FirstSuch(ex.out.page.imgs, 1)>>, 1)

\* C28: on a page of a registered source fetched with status 200 that has
\* an element matching the source's content selector, fetch_full_content
\* returns that element's text as content.
C28_ContentOfRegisteredSource ==
    (PageRead /\ ex.out.page.content_element # None)
        => ex.full.value.content = ex.out.page.content_element

\* C29: whatever the fetch of the article page ends in, both extractors end
\* in a return; a timeout, a transport error, a non-200 status or a page with
\* none of the elements looked for gives the all-absent result.
C29_ExtractorNeverRaises ==
    /\ ex.full.how \in {"pending", "returned"}
    /\ ex.image.how \in {"pending", "returned"}
    /\ (ex.full.how = "returned" /\ ex.out.kind # "ok")
           => ex.full.value = AllAbsent
    /\ (ex.image.how = "returned" /\ ex.out.kind # "ok")
           => ex.image.value = None
    /\ (/\ ex.out.kind = "ok"
        /\ ex.out.page = [content_element |-> None, image_element |-> None,
                          og_image |-> None, twitter_image |-> None,
                          imgs |-> <<>>, author_element |-> None])
           => /\ ex.full.how = "returned" => ex.full.value = AllAbsent
              /\ ex.image.how = "returned" => ex.image.value = None

C29_Witness ==
    /\ ex.out.kind = "TimeoutError"
    /\ ex.full.how = "returned" /\ ex.full.value = AllAbsent
    /\ ex.image.how = "returned" /\ ex.image.value = None

IsMostRead(item) == item.type = "rss-most-read"

RECURSIVE LinkedPrefix(_, _)
\* how many entries of doc come before its first entry without a link
LinkedPrefix(doc, k) ==
    IF k > Len(doc) \/ doc[k].link = None THEN k - 1
    ELSE LinkedPrefix(doc, k + 1)

\* the items of the first n entries of the s-th most-read feed, each with
\* the image its feed entry carries
FeedItems(s, doc, n) ==
    [k \in 1 .. n |->
        MostReadItem(doc[k], most_read_feeds[s],
                     extract_image_from_entry(doc[k]))]

RECURSIVE ItemsThrough(_)
\* the items of the feeds up to the s-th, all read to the end
ItemsThrough(s) ==
    IF s = 0 THEN <<>>
    ELSE ItemsThrough(s - 1)
            \o FeedItems(s, tn.feeds[s], LinkedPrefix(tn.feeds[s], 1))

\* C30: whether their secondary fetches return or time out, the entries of
\* the most-read feeds all have their item in trending_news, in order and
\* with the image of the feed entry (or none): while the secondary fetch of
\* an entry is awaited, the items of all feeds before and of all entries
\* before; afterwards, the items of all feeds read so far, each up to its
\* first entry without a link.
C30_SecondaryFailureLocal ==
    /\ tn.pc = "secondary"
          => SelectSeq(tn.trending_news, IsMostRead)
                = ItemsThrough(tn.source - 1)
                     \o FeedItems(tn.source, tn.entries, tn.pos - 1)
    /\ tn.pc \in {"parse", "done"}
          => SelectSeq(tn.trending_news, IsMostRead)
                = ItemsThrough(Len(tn.feeds))

C30_Witness ==
    /\ tn.pc = "done"
    /\ tn.timed_out
    /\ Len(SelectSeq(tn.trending_news, IsMostRead))
          = Len(most_read_feeds) * MaxTrendEntries

\* the most-read feeds whose request a trending refresh has made so far
Requested(r) == 1 .. req[r].idx

\* C31: while a trending refresh waits for the answer of one most-read feed,
\* the request of every other most-read feed has been made too: no feed
\* waits for another feed's answer.
C31_SourcesFetchedConcurrently ==
    \A r \in Reqs :
        (req[r].kind = "trending" /\ req[r].pc = "fetch")
            => Requested(r) = 1 .. Len(most_read_feeds)

\* in fetch_rss_feeds a later feed's task can end while an earlier one is
\* still running
LaterTaskEndsFirst ==
    /\ fr.pc = "gather"
    /\ ~fr.tasks[1].done
    /\ fr.tasks[Len(RSS_FEEDS)].done

\* C32: the cached trending list never holds more than MAX_ITEMS.trending
\* items and the cached news list never more than MAX_ITEMS.news, whatever
\* the feeds serve.
C32_ItemCap ==
    /\ Len(cache.trending_news) <= MAX_ITEMS.trending
    /\ Len(cache.news) <= MAX_ITEMS.news

\* the trending list is full although a feed served more entries than are
\* kept of it
C32_Witness ==
    /\ Len(cache.trending_news) = MAX_ITEMS.trending
    /\ Len(cache.trending_news) < Len(most_read_feeds) * MaxFeedLen

\* the eight categories an item may carry
ClosedCategories ==
    {"politics", "business", "technology", "sports", "entertainment",
     "health", "science", "general"}

Categorized(items) ==
    \A k \in 1 .. Len(items) :
        /\ "category" \in DOMAIN items[k]
        /\ items[k].category \in ClosedCategories

\* C33: every item of the cached news list, of the cached trending list and
\* of a list get_news returned has a category field, and its value is one of
\* the eight categories.
C33_ClosedCategorySet ==
    /\ Categorized(cache.news)
    /\ Categorized(cache.trending_news)
    /\ Categorized(gn.ret)

\* the items fetch_rss_feed builds are categorized by detect_category, whose
\* results are the keys of its table and 'general'
RssItemsCategorized ==
    \A i \in 1 .. Len(RSS_FEEDS) : Categorized(fr.tasks[i].result)

\* C34: no step replaces the time of a cache entry by an earlier one (an
\* absent time may be replaced by any time).
C34_LastUpdateMonotonic ==
    [][/\ cache.trending_last_update # None
          => /\ cache'.trending_last_update # None
             /\ cache'.trending_last_update >= cache.trending_last_update
       /\ cache.last_update # None
          => /\ cache'.last_update # None
             /\ cache'.last_update >= cache.last_update]_vars

\* C35: a cached list that is not empty has its time: the news list with
\* last_update, the trending list with trending_last_update.
C35_SnapshotHasTimestamp ==
    /\ cache.news # <<>> => cache.last_update # None
    /\ cache.trending_news # <<>> => cache.trending_last_update # None

\* a list stored by a refresh that started TrendingTTL minutes in, or later
C35_Witness ==
    /\ cache.trending_news # <<>>
    /\ cache.trending_last_update >= TrendingTTL

\* request r takes a step of a read of the given kind
StepOf(r, kind) ==
    /\ req'[r] # req[r]
    /\ req'[r].kind = kind

\* C36: a step of a news read leaves the trending list and its time as they
\* are, and a step of a trending read or refresh, however it ends, leaves
\* the news list and its time as they are.
C36_ViewsIndependent ==
    [][\A r \in Reqs :
          /\ StepOf(r, "news")
                => /\ cache'.trending_news = cache.trending_news
                   /\ cache'.trending_last_update = cache.trending_last_update
          /\ StepOf(r, "trending")
                => /\ cache'.news = cache.news
                   /\ cache'.last_update = cache.last_update]_vars

\* a news read has been served while the trending list was stored
C36_Witness ==
    \E r \in Reqs :
        /\ Done(r, "news")
        /\ req[r].refreshed
        /\ cache.trending_news # <<>>

\* C37: a trending refresh whose feeds all answer or fail within the timeout
\* of their GET is never cut by the timer of the handler: it ends in a
\* return, and what it collected, if anything, is then the cached list.
C37_RefreshFitsDeadline ==
    \A r \in Reqs :
        (Done(r, "trending") /\ req[r].refreshed)
            => /\ req[r].outcome = "returned"
               /\ req[r].acc # <<>> => cache.trending_news = req[r].acc

RECURSIVE InRegistryOrder(_)
\* the items of the first n main feeds, feed after feed in the order of
\* RSS_FEEDS, each feed's items in the order of its entries
InRegistryOrder(n) ==
    IF n = 0 THEN <<>>
    ELSE InRegistryOrder(n - 1)
            \o fetch_rss_feed(RSS_FEEDS[n], fr.tasks[n].out)

\* C38: what fetch_rss_feeds returns is the items of the feeds in the order
\* of RSS_FEEDS, each feed's items in the order of its entries, in whatever
\* order the tasks ended.
C38_MergeOrderFixed ==
    fr.pc \in {"returned", "merged"}
        => fr.all_entries = InRegistryOrder(Len(RSS_FEEDS))

\* the last feed answered first and the first feed last, both with entries
C38_Witness ==
    /\ fr.pc = "returned"
    /\ fr.order[1] = Len(RSS_FEEDS)
    /\ fr.order[Len(RSS_FEEDS)] = 1
    /\ fr.tasks[1].out.kind = "ok"
    /\ fr.tasks[Len(RSS_FEEDS)].out.kind = "ok"

\* the items of the cached news list whose url is the id asked for
Matching(r) == SelectSeq(cache.news, LAMBDA item : item.url = req[r].news_id)

\* C39: a lookup whose data call returned answers 404 if no item of the
\* news list has the id as its url, and answers 200 with the first such item
\* if there is one.
C39_MissingItemIsNotFound ==
    \A r \in Reqs :
        (Done(r, "detail") /\ req[r].outcome = "returned")
            => IF Matching(r) = <<>>
               THEN req[r].status = "404"
               ELSE /\ req[r].status = "200"
                    /\ req[r].data = <<Matching(r)[1]>>

\* a lookup of an id that an item has is answered with that item
FoundItemIsReturned ==
    \A r \in Reqs :
        (Done(r, "detail") /\ req[r].outcome = "returned"
            /\ Matching(r) # <<>>)
            => /\ req[r].status = "200"
               /\ req[r].data = <<Matching(r)[1]>>

\* C40: the url of every item fetch_rss_feed builds is the link string of
\* its entry, whichever way the image of the entry was looked for.
C40_UrlIsEntryLink ==
    \A i \in 1 .. Len(RSS_FEEDS) :
        \A k \in 1 .. Len(gn.feeds[i].result) :
            /\ gn.feeds[i].result[k].url.str
            /\ gn.feeds[i].result[k].url.of = <<>>

\* with media_content or media_thumbnail on the entry the links are not
\* scanned and the url is the link string
UrlIsEntryLinkWithoutScan ==
    \A i \in 1 .. Len(RSS_FEEDS) :
        \A k \in 1 .. Len(fr.tasks[i].result) :
            fr.tasks[i].result[k].url
                = StrUrl(fr.tasks[i].out.entries[k].link)

====
